---------------------------- MODULE Spec2Model ----------------------------
(***************************************************************************)
(* Pipeline orchestration layer of the HybridRAG chatbot:                  *)
(*   - the retry wrapper of the three backends (retry_on_exception),       *)
(*   - the ingestion pipeline of Admin_Backend with its three entry paths  *)
(*     (submit_text + process_file_job, pubsub_endpoint, pull_callback)    *)
(*     and the in-memory job store,                                        *)
(*   - the query pipeline (ask) of User_Backend and Users_Backend with the *)
(*     Redis cache.                                                        *)
(* External collaborators (GCS, chunk service, embedding model, vector     *)
(* index, LLM, Redis) are oracles: every remote call draws its response    *)
(* from a small set.                                                       *)
(***************************************************************************)
EXTENDS Integers, Sequences, FiniteSets, TLC

VARIABLES
    rcall,      \* one call through a retry wrapper: input, phase, result
    runs,       \* Admin_Backend: ingestion runs (one per request / job / message)
    job_store,  \* Admin_Backend: job_store dict, job id -> record
    qcfg,       \* query backend deployment: which backend, redis_client present
    qruns,      \* query backend: /ask requests
    cache,      \* query backend: Redis contents, key -> stored string
    sub,        \* Admin_Backend: the pull subscriber's globals and objects
    keyreq,     \* query backend: two requests and the cache keys they use
    tmp         \* Admin_Backend: the objects in the buckets, the files in /tmp

vars == <<rcall, runs, job_store, qcfg, qruns, cache, sub, keyreq, tmp>>

-----------------------------------------------------------------------------
(* Program constants *)

\* MAX_RETRIES = int(os.environ.get("MAX_RETRIES", 3))
MAX_RETRIES == 3
\* BACKOFF_BASE = float(os.environ.get("BACKOFF_BASE", 0.2)), in milliseconds
BACKOFF_BASE == 200

(* Bounds of the model *)

\* longest chunk list / prediction list a collaborator returns
MaxItems == 1

Backends == {"Admin", "User", "Users"}

-----------------------------------------------------------------------------
(* retry_on_exception *)

\* Mutant of Pow2: the factor does not grow with the attempt.
Pow2_flat(n) == 1

\* 2 ** n
RECURSIVE Pow2(_)
Pow2(n) == IF n = 0 THEN 1 ELSE 2 * Pow2(n - 1)

\* Users_Backend formats its log lines with fn._name_, an attribute no function
\* has: evaluating it inside the except block raises AttributeError, which
\* leaves the wrapper at once. Admin_Backend and User_Backend use
\* getattr(fn, "__name__", str(fn)).
LogNameRaises(backend) == backend = "Users"

AttributeError == "AttributeError: 'function' object has no attribute '_name_'"

\* The wrapper's for loop from `attempt` on. results[i] is what the i-th
\* invocation of fn does: [ok, val, exc]. Returns what the wrapper call does:
\* ok/val (return) or exc (raise), with the number of invocations of fn and
\* the sleeps performed.
RECURSIVE RetryLoop(_, _, _, _, _, _)
RetryLoop(backend, max_retries, backoff_base, results, attempt, waits) ==
    IF attempt > max_retries
    THEN \* raise last_exc
         [ok |-> FALSE, val |-> results[max_retries].val,
          exc |-> results[max_retries].exc,
          attempts |-> max_retries, waits |-> waits]
    ELSE IF results[attempt].ok
    THEN \* return fn(*args, **kwargs)
         [ok |-> TRUE, val |-> results[attempt].val, exc |-> "",
          attempts |-> attempt, waits |-> waits]
    ELSE IF LogNameRaises(backend)
    THEN [ok |-> FALSE, val |-> results[attempt].val, exc |-> AttributeError,
          attempts |-> attempt, waits |-> waits]
    ELSE \* wait = backoff_base * (2 ** (attempt - 1)); time.sleep(wait)
         RetryLoop(backend, max_retries, backoff_base, results, attempt + 1,
                   Append(waits, backoff_base * Pow2(attempt - 1)))

retry_on_exception(backend, max_retries, backoff_base, results) ==
    RetryLoop(backend, max_retries, backoff_base, results, 1, <<>>)

\* What one invocation of a wrapped operation can do.
FnResults ==
    { [ok |-> TRUE,  val |-> "r1", exc |-> ""],
      [ok |-> TRUE,  val |-> "r2", exc |-> ""],
      [ok |-> FALSE, val |-> "",   exc |-> "e1"],
      [ok |-> FALSE, val |-> "",   exc |-> "e2"] }

NoRet == [ok |-> FALSE, val |-> "", exc |-> "", attempts |-> 0, waits |-> <<>>]

InitRetry ==
    rcall \in { [backend |-> b, results |-> rs, phase |-> "pending", ret |-> NoRet] :
                b \in Backends, rs \in [1..MAX_RETRIES -> FnResults] }

IdleRetry ==
    rcall = [backend |-> "Admin",
             results |-> [i \in 1..MAX_RETRIES |-> [ok |-> TRUE, val |-> "r1", exc |-> ""]],
             phase |-> "idle", ret |-> NoRet]

\* A caller invokes the decorated function once.
RetryCall ==
    /\ rcall.phase = "pending"
    /\ rcall' = [rcall EXCEPT
                   !.phase = "returned",
                   !.ret = retry_on_exception(rcall.backend, MAX_RETRIES,
                                              BACKOFF_BASE, rcall.results)]
    /\ UNCHANGED <<runs, job_store, qcfg, qruns, cache, sub, keyreq, tmp>>

-----------------------------------------------------------------------------
(* Admin_Backend: the wrapped collaborator calls *)

\* Ingestion runs in flight together (requests, background jobs, pulled
\* messages), and the job ids uuid4 can draw. Runs share nothing but the job
\* store, which is keyed by job id.
RunIds == {1, 2}
JobIds == {1, 2}

\* Whether the endpoint variable of a call is set, and whether authed_session
\* was initialised.
Envs == [endpoint : BOOLEAN, auth : BOOLEAN]

Raise(msg) == [ok |-> FALSE, val |-> <<>>, exc |-> msg]
Return(v) == [ok |-> TRUE, val |-> v, exc |-> ""]

ItemNames == <<"1", "2", "3", "4">>
\* n chunk texts / n embedding vectors, in order
Chunks(n) == [i \in 1..n |-> "chunk" \o ItemNames[i]]
Vectors(n) == [i \in 1..n |-> "vec" \o ItemNames[i]]

\* What the chunk service answers to one POST: an HTTP/transport failure, its
\* reply {"chunks_count": n, "chunks": [...]}, or its reply {"error": "..."}
\* (status 200) for a file it cannot read.
ChunkResps ==
    {[kind |-> "raise", n |-> 0], [kind |-> "error", n |-> 0]}
        \cup {[kind |-> "chunks", n |-> k] : k \in 0..MaxItems}

\* json.dumps(data) of a chunk-service reply
JsonDumps(resp) ==
    IF resp.kind = "error" THEN "{\"error\": \"Unsupported file type\"}"
    ELSE "{\"chunks_count\": 0, \"chunks\": []}"

\* call_chunk_service of each backend, one invocation of the undecorated body
call_chunk_service(backend, env, resp) ==
    IF ~env.endpoint THEN Raise("CHUNK_ENDPOINT not configured")
    ELSE IF resp.kind = "raise" THEN Raise("RequestException")
    ELSE IF backend = "Admin"
    THEN \* chunks = data.get("chunks") or [json.dumps(data)]
         IF resp.kind = "chunks" /\ resp.n > 0 THEN Return(Chunks(resp.n))
         ELSE Return(<<JsonDumps(resp)>>)
    ELSE \* User_Backend, Users_Backend:
         \* if isinstance(data, dict) and "chunks" in data and
         \* isinstance(data["chunks"], list): the list, element by element;
         \* another dict: [json.dumps(data)]
         IF resp.kind = "chunks" THEN Return(Chunks(resp.n))
         ELSE Return(<<JsonDumps(resp)>>)

\* What the embedding endpoint answers: failure, {"predictions": [...]} with n
\* predictions, or a body of another shape.
EmbedResps ==
    {[kind |-> "raise", n |-> 0], [kind |-> "malformed", n |-> 0]}
        \cup {[kind |-> "predictions", n |-> k] : k \in 0..MaxItems}

\* get_embeddings of each backend, one invocation of the undecorated body
get_embeddings(backend, env, resp) ==
    IF ~env.endpoint THEN Raise("EMBEDDING_ENDPOINT not configured")
    ELSE IF ~env.auth THEN Raise("Google auth not available for embeddings call")
    ELSE IF resp.kind = "raise" THEN Raise("RequestException")
    ELSE IF resp.kind = "malformed" THEN Raise("Unexpected embedding response format")
    ELSE IF backend = "User" /\ resp.n = 0
    THEN \* `if preds and isinstance(preds, list)` is false for an empty list
         \* and data is no list: the function falls through to its raise
         Raise("Unexpected embedding response format")
    ELSE \* [pred["embeddings"]["values"] for pred in data["predictions"]]
         Return(Vectors(resp.n))

StoreResps == {[kind |-> "raise", n |-> 0], [kind |-> "ack", n |-> 0]}

\* Admin_Backend.store_embeddings, one invocation of the undecorated body
store_embeddings(env, resp) ==
    IF ~env.endpoint THEN Raise("VECTOR_DB_ENDPOINT not configured")
    ELSE IF ~env.auth THEN Raise("Google auth not available for vector DB call")
    ELSE IF resp.kind = "raise" THEN Raise("RequestException")
    ELSE Return(<<"store_ack">>)  \* resp.json(), the collaborator's payload

\* download_from_gcs is not decorated: one invocation, no retry.
DownloadResps == {[kind |-> "raise", n |-> 0], [kind |-> "ok", n |-> 0]}

download_from_gcs(resp) ==
    IF resp.kind = "raise"
    THEN [ok |-> FALSE, val |-> <<>>, exc |-> "GoogleAPIError", attempts |-> 1, waits |-> <<>>]
    ELSE [ok |-> TRUE, val |-> <<>>, exc |-> "", attempts |-> 1, waits |-> <<>>]

\* What the collaborator did in a call, seen from outside the pipeline:
\* "raised" (the call raised), "empty" (it returned an empty list),
\* "errreply" (the chunk service's error reply), "ok".
Tag(res, last) ==
    IF ~res.ok
    THEN \* User_Backend's get_embeddings raises on an empty predictions list
         IF res.exc = "Unexpected embedding response format" /\ last.kind = "predictions"
         THEN "empty" ELSE "raised"
    ELSE IF last.kind = "error" THEN "errreply"
    ELSE IF last.kind \in {"chunks", "predictions"} /\ last.n = 0 THEN "empty"
    ELSE "ok"

\* A call of a function decorated with @retry_on_exception(MAX_RETRIES,
\* BACKOFF_BASE): its body's i-th invocation meets the collaborator response
\* resps[i] and does results[i].
Decorated(backend, results, resps) ==
    LET res == retry_on_exception(backend, MAX_RETRIES, BACKOFF_BASE, results)
    IN  [res |-> res, tag |-> Tag(res, resps[res.attempts])]

\* Everything a call of each Admin_Backend stage can do.
AdminChunkCalls ==
    { Decorated("Admin", [i \in 1..MAX_RETRIES |-> call_chunk_service("Admin", env, resps[i])], resps) :
        env \in Envs, resps \in [1..MAX_RETRIES -> ChunkResps] }
AdminEmbedCalls ==
    { Decorated("Admin", [i \in 1..MAX_RETRIES |-> get_embeddings("Admin", env, resps[i])], resps) :
        env \in Envs, resps \in [1..MAX_RETRIES -> EmbedResps] }
AdminStoreCalls ==
    { Decorated("Admin", [i \in 1..MAX_RETRIES |-> store_embeddings(env, resps[i])], resps) :
        env \in Envs, resps \in [1..MAX_RETRIES -> StoreResps] }
AdminDownloadCalls ==
    { [res |-> download_from_gcs(resp), tag |-> Tag(download_from_gcs(resp), resp)] :
        resp \in DownloadResps }

AdminCalls(stage) ==
    CASE stage = "download" -> AdminDownloadCalls
      [] stage = "chunk"    -> AdminChunkCalls
      [] stage = "embed"    -> AdminEmbedCalls
      [] stage = "store"    -> AdminStoreCalls

-----------------------------------------------------------------------------
(* Admin_Backend: job store and the three entry paths of ingestion *)

StageSet == {"download", "chunk", "embed", "store"}

\* A job's details dict: the keys present and their values.
NoDetails ==
    [keys |-> {}, acknowledged |-> FALSE, errors |-> <<>>, stored |-> 0,
     store_resp |-> <<>>, exception |-> ""]

NoJob == [status |-> "absent", details |-> NoDetails]

\* An HTTP response: status (0: none yet) and the body's fields.
NoReply ==
    [status |-> 0, acknowledged |-> FALSE, errors |-> <<>>, stored |-> 0,
     detail |-> "", job_id |-> 0, job_status |-> ""]

\* Objects a notification can name: a bucket and an object name (its
\* characters). An object's content is told apart from every other object's.
Objects ==
    { [bucket |-> "b1", name |-> <<"a", "/", "b">>],
      [bucket |-> "b1", name |-> <<"a", "_", "b">>],
      [bucket |-> "b2", name |-> <<"a", "/", "b">>] }

NoObject == [bucket |-> "", name |-> <<>>]

\* f"/tmp/{name.replace('/', '_')}"
local_file(name) ==
    <<"/tmp/">> \o [i \in DOMAIN name |-> IF name[i] = "/" THEN "_" ELSE name[i]]

LocalFiles == { local_file(obj.name) : obj \in Objects }

\* The buckets hold the given objects and /tmp holds no file yet. A file is
\* known by the object whose content it holds.
NoFiles(objects) ==
    [objects |-> objects, files |-> [f \in LocalFiles |-> NoObject]]

\* One ingestion run: the handler's position and locals, what it has invoked
\* (log: the stage functions called, in order; calls: invocations of the
\* collaborator made by the last one, and waits: the sleeps between them;
\* got: what each collaborator did), and
\* what it has answered (reply; acks/nacks of a pulled message). msg: the
\* kind of Pub/Sub message a push request or a pull callback was given, and
\* object: the object it names; sent: the content of the file that
\* call_chunk_service opened and posted.
IdleRun ==
    [path |-> "none", msg |-> "none", object |-> NoObject, sent |-> NoObject,
     pc |-> "idle", job_id |-> 0, log |-> <<>>,
     got |-> [s \in StageSet |-> "-"], calls |-> 0, waits |-> <<>>,
     chunks |-> <<>>, embeddings |-> <<>>, store_resp |-> <<>>,
     errors |-> <<>>, reply |-> NoReply, acks |-> 0, nacks |-> 0]

\* Notifications name one object, unless a specification says otherwise.
InitAdmin ==
    /\ runs = [r \in RunIds |-> IdleRun]
    /\ job_store = [j \in JobIds |-> NoJob]
    /\ tmp = NoFiles({[bucket |-> "b1", name |-> <<"a", "/", "b">>]})

\* Mutant of job_update: a job that reaches a terminal status is dropped from
\* the store.
job_update_evicts(store, job_id, status, details) ==
    [store EXCEPT ![job_id] = IF status \in {"done", "failed"}
                              THEN [status |-> "absent", details |-> details]
                              ELSE [status |-> status, details |-> details]]

\* job_store[job_id] = {"status": status, "details": details or {}}
job_update(store, job_id, status, details) ==
    [store EXCEPT ![job_id] = [status |-> status, details |-> details]]

\* Mutant of uuid4: ids collide with those of earlier jobs.
uuid4_collides(store) == JobIds

\* str(uuid.uuid4()): an id no earlier job has
uuid4(store) == {j \in JobIds : store[j].status = "absent"}

\* GET /status/{job_id}
job_status(store, job_id) ==
    IF job_id \notin JobIds \/ store[job_id].status = "absent"
    THEN [status |-> 404, job_id |-> job_id, job_status |-> "", details |-> NoDetails]
    ELSE [status |-> 200, job_id |-> job_id, job_status |-> store[job_id].status,
          details |-> store[job_id].details]

\* Mutant of EmptyCheck: only the chunk list is checked.
EmptyCheck_chunks(stage, val) ==
    IF stage = "chunk" /\ val = <<>> THEN "Chunk service returned empty" ELSE ""

\* `if not chunks: raise RuntimeError(...)` / `if not embeddings: raise ...`
EmptyCheck(stage, val) ==
    IF stage = "chunk" /\ val = <<>> THEN "Chunk service returned empty"
    ELSE IF stage = "embed" /\ val = <<>> THEN "No embeddings returned"
    ELSE ""

\* The exception a stage of the pipeline ends with ("": none): the call's own,
\* or the emptiness check's.
StageExc(stage, res) ==
    IF ~res.ok THEN res.exc ELSE EmptyCheck(stage, res.val)

NextStage(stage) ==
    CASE stage = "download" -> "chunk"
      [] stage = "chunk"    -> "embed"
      [] stage = "embed"    -> "store"
      [] stage = "store"    -> "end"

\* The run after calling `stage`, before the handler looks at the outcome.
Called(run, stage, o) ==
    [run EXCEPT !.log = Append(@, stage), !.got[stage] = o.tag,
                !.calls = o.res.attempts, !.waits = o.res.waits]

\* The handler's locals after a stage returned.
Bound(run, stage, val) ==
    [run EXCEPT !.chunks = IF stage = "chunk" THEN val ELSE @,
                !.embeddings = IF stage = "embed" THEN val ELSE @,
                !.store_resp = IF stage = "store" THEN val ELSE @,
                !.pc = NextStage(stage)]

\* POST /submit_text
submit_text(run, store, text, job_id) ==
    IF text = ""
    THEN [run |-> [run EXCEPT !.path = "job", !.pc = "end",
                              !.reply = [NoReply EXCEPT !.status = 400,
                                                        !.detail = "No text provided"]],
          store |-> store]
    ELSE [run |-> [run EXCEPT !.path = "job", !.pc = "queued", !.job_id = job_id,
                              !.reply = [NoReply EXCEPT !.status = 200,
                                                        !.job_id = job_id,
                                                        !.job_status = "accepted"]],
          store |-> job_update(store, job_id, "accepted",
                               [NoDetails EXCEPT !.keys = {"local_path"}])]

\* process_file_job, first statement: job_update(job_id, "running")
process_file_job_start(run, store) ==
    [run |-> [run EXCEPT !.pc = "chunk"],
     store |-> job_update(store, run.job_id, "running", NoDetails)]

\* Mutant of process_file_job_except: the exception ends the task without the
\* final job_update.
process_file_job_except_swallow(run, store, exc) ==
    [run |-> [run EXCEPT !.errors = Append(@, [stage |-> "process", error |-> exc]),
                         !.pc = "end"],
     store |-> store]

\* Mutant of process_file_job_except: the error is appended once per handler
\* and once more when the details are built.
process_file_job_except_twice(run, store, exc) ==
    LET errors == Append(Append(run.errors, [stage |-> "process", error |-> exc]),
                         [stage |-> "process", error |-> exc])
    IN  [run |-> [run EXCEPT !.errors = errors, !.pc = "end"],
         store |-> job_update(store, run.job_id, "failed",
                      [NoDetails EXCEPT !.keys = {"errors", "exception"},
                                        !.errors = errors,
                                        !.exception = exc])]

\* Mutant of process_file_job_except: the job is closed as done, with the
\* error in its details.
process_file_job_except_done(run, store, exc) ==
    LET errors == Append(run.errors, [stage |-> "process", error |-> exc])
    IN  [run |-> [run EXCEPT !.errors = errors, !.pc = "end"],
         store |-> job_update(store, run.job_id, "done",
                      [NoDetails EXCEPT !.keys = {"acknowledged", "errors", "stored"},
                                        !.acknowledged = TRUE,
                                        !.errors = errors])]

\* process_file_job, the except block
process_file_job_except(run, store, exc) ==
    LET errors == Append(run.errors, [stage |-> "process", error |-> exc])
    IN  [run |-> [run EXCEPT !.errors = errors, !.pc = "end"],
         store |-> job_update(store, run.job_id, "failed",
                      [NoDetails EXCEPT !.keys = {"errors", "exception"},
                                        !.errors = errors,
                                        !.exception = exc])]

\* Mutant of process_file_job: the final job_update leaves the store
\* collaborator's payload out and counts the chunks, plus one.
process_file_job_miscount(run, store, stage, o) ==
    LET exc == StageExc(stage, o.res)
        run1 == Called(run, stage, o)
    IN  IF exc /= ""
        THEN process_file_job_except(run1, store, exc)
        ELSE LET run2 == Bound(run1, stage, o.res.val)
             IN  IF stage = "store"
                 THEN [run |-> run2,
                       store |-> job_update(store, run.job_id, "done",
                                   [NoDetails EXCEPT
                                      !.keys = {"acknowledged", "errors", "stored"},
                                      !.acknowledged = TRUE,
                                      !.errors = run2.errors,
                                      !.stored = Len(run2.chunks) + 1])]
                 ELSE [run |-> run2, store |-> store]

\* process_file_job after the call of `stage` ended as `o`: the next stage,
\* the final job_update(..., "done", ...), or the except block.
process_file_job(run, store, stage, o) ==
    LET exc == StageExc(stage, o.res)
        run1 == Called(run, stage, o)
    IN  IF exc /= ""
        THEN process_file_job_except(run1, store, exc)
        ELSE LET run2 == Bound(run1, stage, o.res.val)
             IN  IF stage = "store"
                 THEN [run |-> run2,
                       store |-> job_update(store, run.job_id, "done",
                                   [NoDetails EXCEPT
                                      !.keys = {"acknowledged", "errors", "stored", "store_resp"},
                                      !.acknowledged = TRUE,
                                      !.errors = run2.errors,
                                      !.stored = Len(run2.embeddings),
                                      !.store_resp = run2.store_resp])]
                 ELSE [run |-> run2, store |-> store]

\* Pub/Sub message bodies: no data field, data that does not decode to JSON,
\* JSON that is not an object, an object without bucket/name, a well-formed
\* notification.
Messages == {"nodata", "badenc", "notdict", "nokeys", "valid"}

HTTPException(run, status, detail) ==
    [run EXCEPT !.pc = "end",
                !.reply = [NoReply EXCEPT !.status = status, !.detail = detail]]

\* POST / (push), up to the download call
pubsub_endpoint_decode(run, msg) ==
    IF msg /= "valid"
    THEN HTTPException([run EXCEPT !.path = "push", !.msg = msg,
                                   !.errors = Append(@, [stage |-> "decode", error |-> msg])],
                       400, "Decode error")
    ELSE [run EXCEPT !.path = "push", !.msg = msg, !.pc = "download"]

\* POST / (push), the except blocks of the download and of the pipeline
pubsub_endpoint_except(run, stage, exc) ==
    IF stage = "download"
    THEN HTTPException([run EXCEPT !.errors =
                           Append(@, [stage |-> "download", error |-> exc])],
                       500, "Download error")
    ELSE HTTPException([run EXCEPT !.errors =
                           Append(@, [stage |-> "pipeline", error |-> exc])],
                       503, "Pipeline error")

\* Mutant of pubsub_endpoint: the lists the stages return are not checked
\* for emptiness.
pubsub_endpoint_unchecked(run, stage, o) ==
    LET exc == IF ~o.res.ok THEN o.res.exc ELSE ""
        run1 == Called(run, stage, o)
    IN  IF exc /= ""
        THEN pubsub_endpoint_except(run1, stage, exc)
        ELSE LET run2 == Bound(run1, stage, o.res.val)
             IN  IF stage = "store"
                 THEN [run2 EXCEPT !.reply = [NoReply EXCEPT
                                                !.status = 200,
                                                !.acknowledged = TRUE,
                                                !.errors = run2.errors,
                                                !.stored = Len(run2.embeddings)]]
                 ELSE run2

\* POST / (push) after the call of `stage` ended as `o`
pubsub_endpoint(run, stage, o) ==
    LET exc == StageExc(stage, o.res)
        run1 == Called(run, stage, o)
    IN  IF exc /= ""
        THEN pubsub_endpoint_except(run1, stage, exc)
        ELSE LET run2 == Bound(run1, stage, o.res.val)
             IN  IF stage = "store"
                 THEN [run2 EXCEPT !.reply = [NoReply EXCEPT
                                                !.status = 200,
                                                !.acknowledged = TRUE,
                                                !.errors = run2.errors,
                                                !.stored = Len(run2.embeddings)]]
                 ELSE run2

\* Mutant of pull_callback_decode: the `return` after message.nack() is
\* missing.
pull_callback_decode_noreturn(run, msg) ==
    IF msg /= "valid"
    THEN [run EXCEPT !.path = "pull", !.msg = msg, !.pc = "download", !.nacks = @ + 1]
    ELSE [run EXCEPT !.path = "pull", !.msg = msg, !.pc = "download"]

\* pull_callback, up to the download call. Data that does not decode is
\* nacked by the inner except block, an object without bucket or name by the
\* check that follows, and a payload that is not an object (payload.get
\* raises AttributeError) by the outer except block; each returns at once.
pull_callback_decode(run, msg) ==
    IF msg /= "valid"
    THEN [run EXCEPT !.path = "pull", !.msg = msg, !.pc = "end", !.nacks = @ + 1]
    ELSE [run EXCEPT !.path = "pull", !.msg = msg, !.pc = "download"]

\* Mutant of pull_callback_except: the `return` after message.nack() is missing.
pull_callback_except_noreturn(run, stage) ==
    [run EXCEPT !.pc = NextStage(stage), !.nacks = @ + 1]

\* pull_callback, the except block of a stage: message.nack(); return
pull_callback_except(run, stage) ==
    [run EXCEPT !.pc = "end", !.nacks = @ + 1]

\* Mutant of pull_callback: the except block of the store stage returns
\* without message.nack().
pull_callback_store_silent(run, stage, o) ==
    LET exc == StageExc(stage, o.res)
        run1 == Called(run, stage, o)
    IN  IF exc /= ""
        THEN IF stage = "store" THEN [run1 EXCEPT !.pc = "end"]
             ELSE pull_callback_except(run1, stage)
        ELSE LET run2 == Bound(run1, stage, o.res.val)
             IN  IF stage = "store" THEN [run2 EXCEPT !.acks = @ + 1] ELSE run2

\* pull_callback after the call of `stage` ended as `o`
pull_callback(run, stage, o) ==
    LET exc == StageExc(stage, o.res)
        run1 == Called(run, stage, o)
    IN  IF exc /= ""
        THEN pull_callback_except(run1, stage)
        ELSE LET run2 == Bound(run1, stage, o.res.val)
             IN  IF stage = "store" THEN [run2 EXCEPT !.acks = @ + 1] ELSE run2

-----------------------------------------------------------------------------
(* Admin_Backend: the pull subscriber's lifecycle *)

\* Subscriber clients the process may create (each start that gets as far as
\* pubsub_v1.SubscriberClient() creates one).
MaxGen == 2

Gens == 1..MaxGen

\* subscriber_thread.join(timeout=5.0), in seconds
JOIN_TIMEOUT == 5

\* Who calls stop_pull_subscriber: the shutdown hook, the signal handler, or
\* code running on the worker thread itself.
StopCallers == {"on_shutdown", "_signal_handler", "worker"}

\* The module globals subscriber_client, subscriber_thread, streaming_future
\* (0: None) and _stop_event, and the objects they can refer to: the g-th
\* client, the thread started with it and the future that thread got from
\* client.subscribe. name_ok: build_subscription_name finds its settings.
\* pc: where a stop_pull_subscriber in progress stands: "closing" after the
\* future was dealt with, "joining" while it waits in join(timeout=5.0);
\* caller: who called it; waited: seconds spent in the join.
\* last, prev: how the last two lifecycle calls ended.
NoSub(name_ok) ==
    [client |-> [g \in Gens |-> "none"],
     thread |-> [g \in Gens |-> "none"],
     future |-> [g \in Gens |-> "none"],
     subscriber_client |-> 0, subscriber_thread |-> 0, streaming_future |-> 0,
     stop_event |-> FALSE, name_ok |-> name_ok,
     pc |-> "idle", caller |-> "none", waited |-> 0,
     last |-> "none", prev |-> "none"]

InitSub == sub \in { NoSub(b) : b \in BOOLEAN }

IdleSub == sub = NoSub(TRUE)

\* threading.Thread.is_alive()
is_alive(s, g) == s.thread[g] \in {"spawned", "running"}

\* How a lifecycle call ended.
Returned(s, how) == [s EXCEPT !.prev = s.last, !.last = how]

\* streaming_future.cancel()
cancel(s, f) ==
    [s EXCEPT !.future[f] = IF @ = "streaming" THEN "cancelled" ELSE @]

\* pubsub_v1.SubscriberClient(): the next client
NewGen(s) == 1 + Cardinality({ g \in Gens : s.client[g] /= "none" })

\* start_pull_subscriber, the except block: cancel the future if there is one
start_pull_subscriber_except(s) ==
    Returned(IF s.streaming_future /= 0 THEN cancel(s, s.streaming_future) ELSE s,
             "start_failed")

\* Mutant of start_pull_subscriber: the is_alive() guard is missing.
start_pull_subscriber_unguarded(s, client_ok) ==
    IF ~client_ok THEN start_pull_subscriber_except(s)
    ELSE LET g == NewGen(s)
             s1 == [s EXCEPT !.client[g] = "open", !.subscriber_client = g]
         IN  IF ~s.name_ok THEN start_pull_subscriber_except(s1)
             ELSE Returned([s1 EXCEPT !.thread[g] = "spawned",
                                      !.subscriber_thread = g],
                           "start_ok")

\* start_pull_subscriber; client_ok: pubsub_v1.SubscriberClient() returns
start_pull_subscriber(s, client_ok) ==
    IF s.subscriber_thread /= 0 /\ is_alive(s, s.subscriber_thread)
    THEN Returned(s, "start_noop")
    ELSE IF ~client_ok THEN start_pull_subscriber_except(s)
    ELSE LET g == NewGen(s)
             s1 == [s EXCEPT !.client[g] = "open", !.subscriber_client = g]
         IN  IF ~s.name_ok
             THEN \* build_subscription_name raises
                  start_pull_subscriber_except(s1)
             ELSE \* threading.Thread(...); subscriber_thread.start()
                  Returned([s1 EXCEPT !.thread[g] = "spawned",
                                      !.subscriber_thread = g],
                           "start_ok")

\* stop_pull_subscriber, after the join: _stop_event.set()
stop_pull_subscriber_end(s) ==
    Returned([s EXCEPT !.pc = "idle", !.caller = "none", !.stop_event = TRUE],
             IF s.subscriber_thread /= 0 /\ is_alive(s, s.subscriber_thread)
             THEN "stop_expired" ELSE "stop")

\* subscriber_client.close(): the channel is closed, and a stream open on it
\* ends
close(s, c) ==
    [s EXCEPT !.client[c] = "closed",
              !.future[c] = IF @ = "streaming" THEN "failed" ELSE @]

\* Mutant of stop_pull_subscriber_close: the client is not closed.
stop_pull_subscriber_close_keeps(s) ==
    IF s.subscriber_thread /= 0 /\ is_alive(s, s.subscriber_thread)
    THEN IF s.caller = "worker" THEN stop_pull_subscriber_end(s)
         ELSE [s EXCEPT !.pc = "joining", !.waited = 0]
    ELSE stop_pull_subscriber_end(s)

\* Mutant of stop_pull_subscriber_close: the join has no timeout and the
\* caller is not looked at.
stop_pull_subscriber_close_waits(s) ==
    LET s1 == IF s.subscriber_client /= 0
              THEN [close(s, s.subscriber_client) EXCEPT !.subscriber_client = 0]
              ELSE s
    IN  IF s1.subscriber_thread /= 0 /\ is_alive(s1, s1.subscriber_thread)
        THEN [s1 EXCEPT !.pc = "joining", !.waited = JOIN_TIMEOUT + 1]
        ELSE stop_pull_subscriber_end(s1)

\* stop_pull_subscriber, `if subscriber_client:` up to the join. join() on the
\* calling thread itself raises RuntimeError, which the outer except logs.
stop_pull_subscriber_close(s) ==
    LET s1 == IF s.subscriber_client /= 0
              THEN [close(s, s.subscriber_client) EXCEPT !.subscriber_client = 0]
              ELSE s
    IN  IF s1.subscriber_thread /= 0 /\ is_alive(s1, s1.subscriber_thread)
        THEN IF s1.caller = "worker" THEN stop_pull_subscriber_end(s1)
             ELSE [s1 EXCEPT !.pc = "joining", !.waited = 0]
        ELSE stop_pull_subscriber_end(s1)

\* stop_pull_subscriber, `if streaming_future:`: cancel it and forget it
stop_pull_subscriber(s, caller) ==
    LET s1 == IF s.streaming_future /= 0
              THEN [cancel(s, s.streaming_future) EXCEPT !.streaming_future = 0]
              ELSE s
    IN  [s1 EXCEPT !.pc = "closing", !.caller = caller]

\* _subscriber_runner, first statement. client.subscribe raises (the thread
\* logs and exits) or returns a future, which the thread publishes in the
\* global; on a closed client the stream cannot open.
_subscriber_runner(s, g, raises) ==
    IF raises THEN [s EXCEPT !.thread[g] = "dead"]
    ELSE [s EXCEPT !.future[g] = IF s.client[g] = "open" THEN "streaming" ELSE "failed",
                   !.streaming_future = g,
                   !.thread[g] = "running"]

(* Actions of the subscriber *)

SubOnly == UNCHANGED <<rcall, runs, job_store, qcfg, qruns, cache, keyreq, tmp>>

\* on_startup, or any caller
StartPullSubscriber ==
    /\ sub.pc = "idle"
    /\ \/ sub.subscriber_thread /= 0 /\ is_alive(sub, sub.subscriber_thread)
       \/ NewGen(sub) <= MaxGen
    /\ \E client_ok \in BOOLEAN : sub' = start_pull_subscriber(sub, client_ok)
    /\ SubOnly

\* The worker thread is not executing a stop_pull_subscriber of its own.
RunnerFree(g) == ~(sub.caller = "worker" /\ sub.subscriber_thread = g)

\* on_shutdown, the signal handler, or code on the worker thread calls
\* stop_pull_subscriber
StopPullSubscriber ==
    /\ sub.pc = "idle"
    /\ \E caller \in StopCallers :
          /\ caller = "worker" =>
                sub.subscriber_thread /= 0 /\ sub.thread[sub.subscriber_thread] = "running"
          /\ sub' = stop_pull_subscriber(sub, caller)
    /\ SubOnly

StopClose ==
    /\ sub.pc = "closing"
    /\ sub' = stop_pull_subscriber_close(sub)
    /\ SubOnly

\* A second passes in join(timeout=5.0) while the thread is alive.
JoinTick ==
    /\ sub.pc = "joining"
    /\ is_alive(sub, sub.subscriber_thread)
    /\ sub.waited < JOIN_TIMEOUT
    /\ sub' = [sub EXCEPT !.waited = @ + 1]
    /\ SubOnly

\* join(timeout=5.0) returns: the thread has exited, or the time is up
StopJoinReturns ==
    /\ sub.pc = "joining"
    /\ ~is_alive(sub, sub.subscriber_thread) \/ sub.waited = JOIN_TIMEOUT
    /\ sub' = stop_pull_subscriber_end(sub)
    /\ SubOnly

RunnerSubscribe(g) ==
    /\ sub.thread[g] = "spawned"
    /\ \E raises \in BOOLEAN : sub' = _subscriber_runner(sub, g, raises)
    /\ SubOnly

\* The stream breaks (the subscription is gone, the channel was closed, ...).
StreamFails(g) ==
    /\ sub.future[g] = "streaming"
    /\ sub' = [sub EXCEPT !.future[g] = "failed"]
    /\ SubOnly

\* streaming_future.result() raises in the thread, which then exits; after a
\* cancel that is once the callbacks in flight have finished.
RunnerExits(g) ==
    /\ sub.thread[g] = "running"
    /\ sub.future[g] \in {"cancelled", "failed"}
    /\ RunnerFree(g)
    /\ sub' = [sub EXCEPT !.thread[g] = "dead"]
    /\ SubOnly

NextSub ==
    \/ StartPullSubscriber
    \/ StopPullSubscriber
    \/ StopClose
    \/ JoinTick
    \/ StopJoinReturns
    \/ \E g \in Gens :
          \/ RunnerSubscribe(g)
          \/ StreamFails(g)
          \/ RunnerExits(g)

-----------------------------------------------------------------------------
(* Actions *)

QueryIdle == UNCHANGED <<rcall, qcfg, qruns, cache, sub, keyreq>>

\* bucket_name = payload["bucket"]; object_name = payload["name"]
Named(run, obj) == IF run.msg = "valid" THEN [run EXCEPT !.object = obj] ELSE run

\* blob.download_to_filename(local_file): the file holds the object's content
Downloaded(t, run, stage, o) ==
    IF stage = "download" /\ o.res.ok
    THEN [t EXCEPT !.files[local_file(run.object.name)] = run.object]
    ELSE t

\* open(file_path, "rb") in call_chunk_service: what the file holds is sent
Opened(run, stage, t) ==
    IF stage = "chunk" /\ run.path \in {"push", "pull"}
    THEN [run EXCEPT !.sent = t.files[local_file(run.object.name)]]
    ELSE run

SubmitText(r) ==
    /\ runs[r].pc = "idle"
    /\ \E text \in {"", "hello world"} : \E job_id \in uuid4(job_store) :
          LET nxt == submit_text(runs[r], job_store, text, job_id)
          IN  /\ runs' = [runs EXCEPT ![r] = nxt.run]
              /\ job_store' = nxt.store
    /\ UNCHANGED tmp
    /\ QueryIdle

\* The background task starts.
JobStart(r) ==
    /\ runs[r].path = "job" /\ runs[r].pc = "queued"
    /\ LET nxt == process_file_job_start(runs[r], job_store)
       IN  /\ runs' = [runs EXCEPT ![r] = nxt.run]
           /\ job_store' = nxt.store
    /\ UNCHANGED tmp
    /\ QueryIdle

\* The background task calls its next stage.
JobStage(r) ==
    /\ runs[r].path = "job" /\ runs[r].pc \in {"chunk", "embed", "store"}
    /\ \E o \in AdminCalls(runs[r].pc) :
          LET nxt == process_file_job(runs[r], job_store, runs[r].pc, o)
          IN  /\ runs' = [runs EXCEPT ![r] = nxt.run]
              /\ job_store' = nxt.store
    /\ UNCHANGED tmp
    /\ QueryIdle

PushReceive(r) ==
    /\ runs[r].pc = "idle"
    /\ \E msg \in Messages : \E obj \in tmp.objects :
          runs' = [runs EXCEPT ![r] = Named(pubsub_endpoint_decode(runs[r], msg), obj)]
    /\ UNCHANGED <<job_store, tmp>>
    /\ QueryIdle

PushStage(r) ==
    /\ runs[r].path = "push" /\ runs[r].pc \in StageSet
    /\ \E o \in AdminCalls(runs[r].pc) :
          /\ runs' = [runs EXCEPT ![r] =
                         pubsub_endpoint(Opened(runs[r], runs[r].pc, tmp), runs[r].pc, o)]
          /\ tmp' = Downloaded(tmp, runs[r], runs[r].pc, o)
    /\ UNCHANGED job_store
    /\ QueryIdle

PullReceive(r) ==
    /\ runs[r].pc = "idle"
    /\ \E msg \in Messages : \E obj \in tmp.objects :
          runs' = [runs EXCEPT ![r] = Named(pull_callback_decode(runs[r], msg), obj)]
    /\ UNCHANGED <<job_store, tmp>>
    /\ QueryIdle

PullStage(r) ==
    /\ runs[r].path = "pull" /\ runs[r].pc \in StageSet
    /\ \E o \in AdminCalls(runs[r].pc) :
          /\ runs' = [runs EXCEPT ![r] =
                         pull_callback(Opened(runs[r], runs[r].pc, tmp), runs[r].pc, o)]
          /\ tmp' = Downloaded(tmp, runs[r], runs[r].pc, o)
    /\ UNCHANGED job_store
    /\ QueryIdle

IdleQuery ==
    /\ qcfg = [backend |-> "User", redis_client |-> FALSE, chunk_endpoint |-> FALSE,
               embedding_endpoint |-> FALSE, vector_endpoint |-> FALSE,
               authed_session |-> FALSE]
    /\ qruns = <<>>
    /\ cache = <<>>

IdleAdmin == InitAdmin

\* No request pair under observation.
IdleKeys ==
    keyreq = [backend |-> "User", phase |-> 0,
              a |-> <<>>, b |-> <<>>,
              keys_a |-> [status |-> 0, get |-> <<>>, set |-> <<>>],
              keys_b |-> [status |-> 0, get |-> <<>>, set |-> <<>>]]

NextAdmin ==
    \E r \in RunIds :
        \/ SubmitText(r)
        \/ JobStart(r)
        \/ JobStage(r)
        \/ PushReceive(r)
        \/ PushStage(r)
        \/ PullReceive(r)
        \/ PullStage(r)

Init == InitAdmin /\ IdleRetry /\ IdleQuery /\ IdleSub /\ IdleKeys

Spec == Init /\ [][NextAdmin]_vars

\* The job path alone: submissions and their background tasks.
NextJobs ==
    \E r \in RunIds :
        \/ SubmitText(r)
        \/ JobStart(r)
        \/ JobStage(r)

\* The background task is scheduled once the response is sent, and every
\* collaborator call returns or raises.
FairSpec ==
    /\ Init /\ [][NextJobs]_vars
    /\ \A r \in RunIds : WF_vars(JobStart(r)) /\ WF_vars(JobStage(r))

InitR == InitRetry /\ IdleAdmin /\ IdleQuery /\ IdleSub /\ IdleKeys

SpecRetry == InitR /\ [][RetryCall]_vars

-----------------------------------------------------------------------------
(* User_Backend and Users_Backend: POST /ask and the Redis cache *)

\* Requests in flight together, and the two deployments of the handler.
QueryIds == {1, 2}
QueryBackends == {"User", "Users"}

\* A text is the sequence of its characters. "e" followed by the combining
\* "acute" is the decomposed form of the one character "e_acute".
RawQuestions ==
    { <<>>, <<" ">>, <<"e_acute">>, <<"e", "acute">>, <<" ", "e_acute", " ">> }

\* unicodedata.normalize("NFC", s)
RECURSIVE NFC(_)
NFC(s) ==
    IF s = <<>> THEN s
    ELSE IF Len(s) >= 2 /\ s[1] = "e" /\ s[2] = "acute"
    THEN <<"e_acute">> \o NFC(SubSeq(s, 3, Len(s)))
    ELSE <<s[1]>> \o NFC(Tail(s))

\* str.strip()
RECURSIVE lstrip(_)
lstrip(s) == IF s /= <<>> /\ Head(s) = " " THEN lstrip(Tail(s)) ELSE s
RECURSIVE rstrip(_)
rstrip(s) ==
    IF s /= <<>> /\ s[Len(s)] = " " THEN rstrip(SubSeq(s, 1, Len(s) - 1)) ELSE s

normalize_text(s) == rstrip(lstrip(NFC(s)))

\* "q:" + hashlib.sha256(q.encode("utf-8")).hexdigest(); the digest is taken
\* as collision-free.
sha256_key(q) == <<"q:", q>>

\* User_Backend keys the cache by sha256_key(q), Users_Backend by q itself.
cache_key(backend, q) == IF backend = "User" THEN sha256_key(q) ELSE q

Questions == { normalize_text(s) : s \in RawQuestions } \ {<<>>}
CacheKeys(backend) == { cache_key(backend, q) : q \in Questions }

\* Optional[str]: what redis_client.get returns and what `cached` holds.
None == [some |-> FALSE, s |-> <<>>]
Some(s) == [some |-> TRUE, s |-> s]

\* Python's truth value of an Optional[str]: `if cached:`
Truthy(v) == v.some /\ v.s /= <<>>

\* json.dumps(answer, ensure_ascii=False) of a str, and json.loads of a text
json_dumps(s) == <<"dquote">> \o s \o <<"dquote">>
json_loads(s) ==
    IF Len(s) >= 2 /\ s[1] = "dquote" /\ s[Len(s)] = "dquote"
    THEN [ok |-> TRUE, val |-> SubSeq(s, 2, Len(s) - 1)]
    ELSE [ok |-> FALSE, val |-> <<>>]

\* seconds an entry lives: setex(key, ttl, value) when ttl > 0
REDIS_TTL == 3600

RedisResps == {[kind |-> "raise", n |-> 0], [kind |-> "ok", n |-> 0]}

\* redis_get, one invocation of the undecorated body; `stored` is the entry
\* under the key
redis_get(redis_client, resp, stored) ==
    IF ~redis_client
    THEN [ok |-> FALSE, val |-> None, exc |-> "Redis client not initialized"]
    ELSE IF resp.kind = "raise"
    THEN [ok |-> FALSE, val |-> None, exc |-> "RedisError"]
    ELSE Return(stored)

\* redis_set, one invocation of the undecorated body; the entry is written
\* by the invocation that returns
redis_set(redis_client, resp) ==
    IF ~redis_client
    THEN [ok |-> FALSE, val |-> None, exc |-> "Redis client not initialized"]
    ELSE IF resp.kind = "raise"
    THEN [ok |-> FALSE, val |-> None, exc |-> "RedisError"]
    ELSE Return(None)

\* "neighborCount" of the query sent to the vector index
VECTOR_NEIGHBOR_COUNT == 10

\* What a neighbor of a response looks like: its datapoint is a dict whose
\* "text" is a str ("text"), a number ("nontext") or missing ("notext"); its
\* datapoint is itself a str ("strdp") or missing ("nodp"); the neighbor is
\* not a dict at all ("scalar").
NeighborShapes == {"text", "nontext", "notext", "strdp", "nodp", "scalar"}

\* What the vector index answers: failure, or a JSON body (a dict holding
\* the list under "neighbors", or the bare list) with n neighbors in ranked
\* order, the last of the given shape and those before it carrying text.
\* The requests of SpecQuery get well-formed bodies of at most MaxItems
\* neighbors.
SearchResps ==
    {[kind |-> "raise", n |-> 0, shape |-> "text", body |-> "dict"]}
        \cup {[kind |-> "neighbors", n |-> k, shape |-> "text", body |-> "dict"] :
                k \in 0..MaxItems}

\* Every answer of the index: any number of neighbors up to one more than
\* was asked for, short lists ending in a neighbor of any shape, and a body
\* that is a bare list.
AnySearchResps ==
    SearchResps
        \cup {[kind |-> "neighbors", n |-> k, shape |-> "text", body |-> "dict"] :
                k \in 0..(VECTOR_NEIGHBOR_COUNT + 1)}
        \cup {[kind |-> "neighbors", n |-> k, shape |-> sh, body |-> "dict"] :
                k \in 1..2, sh \in NeighborShapes}
        \cup {[kind |-> "neighbors", n |-> k, shape |-> "text", body |-> "list"] :
                k \in 0..1}

Neighbors(n, shape) ==
    [i \in 1..n |-> [rank |-> i, shape |-> IF i = n THEN shape ELSE "text"]]

\* search_vector_db, one invocation of the undecorated body
search_vector_db(env, resp) ==
    IF ~env.endpoint THEN Raise("VECTOR_DB_ENDPOINT not configured")
    ELSE IF ~env.auth THEN Raise("Google auth not available for vector DB call")
    ELSE IF resp.kind = "raise" THEN Raise("RequestException")
    ELSE \* resp.json()
         Return([body |-> resp.body, neighbors |-> Neighbors(resp.n, resp.shape)])

\* The model's answers: a body whose first candidate has one text part, empty
\* or not.
LlmTexts == {<<>>, <<"answer">>}
LlmResps ==
    {[kind |-> "raise", parts |-> <<>>]}
        \cup {[kind |-> "candidates", parts |-> <<t>>] : t \in LlmTexts}

\* call_llm, one invocation of the undecorated body (LLM_STREAM off).
\* "\n\n".join(contexts) raises TypeError when a context is not a str.
call_llm(env, contexts, resp) ==
    IF ~env.endpoint THEN Raise("LLM_ENDPOINT not configured")
    ELSE IF ~env.auth THEN Raise("Google auth not available for LLM call")
    ELSE IF \E i \in DOMAIN contexts : ~contexts[i].str THEN Raise("TypeError")
    ELSE IF resp.kind = "raise" THEN Raise("RequestException")
    ELSE Return(resp.parts)  \* resp.json()

\* "\n".join(texts)
RECURSIVE JoinLines(_)
JoinLines(texts) ==
    IF texts = <<>> THEN <<>>
    ELSE IF Len(texts) = 1 THEN texts[1]
    ELSE texts[1] \o <<"\n">> \o JoinLines(Tail(texts))

\* parse_llm_response on candidates[0].content.parts
parse_llm_response(parts) == JoinLines(parts)

\* A deployment of the query handler: which backend it is, whether the Redis
\* client was created at startup, and which endpoints and credentials its
\* environment gave it. It does not change while the service runs.
QueryConfigs ==
    [backend : QueryBackends, redis_client : BOOLEAN, chunk_endpoint : BOOLEAN,
     embedding_endpoint : BOOLEAN, vector_endpoint : BOOLEAN,
     authed_session : BOOLEAN]

\* What a stage's function finds configured. The chunk service needs no
\* credentials; LLM_ENDPOINT falls back to a URL built from the project and
\* region, so it is never empty.
QueryEnv(cfg, stage) ==
    CASE stage = "chunk" -> [endpoint |-> cfg.chunk_endpoint, auth |-> TRUE]
      [] stage = "embed" ->
            [endpoint |-> cfg.embedding_endpoint, auth |-> cfg.authed_session]
      [] stage = "vector_search" ->
            [endpoint |-> cfg.vector_endpoint, auth |-> cfg.authed_session]
      [] stage = "llm" -> [endpoint |-> TRUE, auth |-> cfg.authed_session]

\* Everything a call of each stage of a query can do.
RedisGetCalls(cfg, stored) ==
    { Decorated(cfg.backend,
                [i \in 1..MAX_RETRIES |-> redis_get(cfg.redis_client, resps[i], stored)],
                resps) :
        resps \in [1..MAX_RETRIES -> RedisResps] }
RedisSetCalls(cfg) ==
    { Decorated(cfg.backend,
                [i \in 1..MAX_RETRIES |-> redis_set(cfg.redis_client, resps[i])],
                resps) :
        resps \in [1..MAX_RETRIES -> RedisResps] }
QueryChunkCalls(cfg) ==
    { Decorated(cfg.backend,
                [i \in 1..MAX_RETRIES |->
                    call_chunk_service(cfg.backend, QueryEnv(cfg, "chunk"), resps[i])],
                resps) :
        resps \in [1..MAX_RETRIES -> ChunkResps] }
QueryEmbedCalls(cfg) ==
    { Decorated(cfg.backend,
                [i \in 1..MAX_RETRIES |->
                    get_embeddings(cfg.backend, QueryEnv(cfg, "embed"), resps[i])],
                resps) :
        resps \in [1..MAX_RETRIES -> EmbedResps] }
QuerySearchCalls(cfg) ==
    { Decorated(cfg.backend,
                [i \in 1..MAX_RETRIES |->
                    search_vector_db(QueryEnv(cfg, "vector_search"), resps[i])],
                resps) :
        resps \in [1..MAX_RETRIES -> SearchResps] }
QuerySearchCallsAny(cfg) ==
    { Decorated(cfg.backend,
                [i \in 1..MAX_RETRIES |->
                    search_vector_db(QueryEnv(cfg, "vector_search"), resps[i])],
                resps) :
        resps \in [1..MAX_RETRIES -> AnySearchResps] }
\* A call that ended in the TypeError of the join is tagged "typeerror": the
\* model was not asked.
QueryLlmCalls(cfg, contexts) ==
    { LET results == [i \in 1..MAX_RETRIES |->
                        call_llm(QueryEnv(cfg, "llm"), contexts, resps[i])]
          d == Decorated(cfg.backend, results, resps)
      IN  [res |-> d.res,
           tag |-> IF results[d.res.attempts].exc = "TypeError" THEN "typeerror"
                   ELSE d.tag] :
        resps \in [1..MAX_RETRIES -> LlmResps] }

\* `redis_get(cache_key) if redis_client else None` of User_Backend: without a
\* client the function is not called.
NotCalled ==
    [res |-> [ok |-> TRUE, val |-> None, exc |-> "", attempts |-> 0, waits |-> <<>>],
     tag |-> "-"]

LookupCalls(cfg, stored) ==
    IF cfg.backend = "User" /\ ~cfg.redis_client THEN {NotCalled}
    ELSE RedisGetCalls(cfg, stored)

QueryStageSet == {"redis_get", "chunk", "embed", "vector_search", "llm", "redis_set"}

\* The "stage" an errors entry carries.
ErrorLabel(stage) == IF stage = "embed" THEN "embeddings" ELSE stage

\* The detail of the HTTPException a fatal stage raises: f"...: {str(e)}"
Detail(stage, exc) ==
    CASE stage = "chunk" -> <<"Chunk stage failed: ", exc>>
      [] stage = "embed" -> <<"Embeddings stage failed: ", exc>>
      [] stage = "llm"   -> <<"LLM call failed: ", exc>>

NoAskReply ==
    [status |-> 0, found |-> FALSE, answer |-> <<>>, contexts_count |-> 0,
     errors |-> <<>>, detail |-> <<"", "">>]

\* One request: the handler's position and locals, what it has invoked (log,
\* got, as for ingestion; llm_ctx: the contexts call_llm was given), and its
\* response.
IdleAsk ==
    [pc |-> "idle", q |-> <<>>, log |-> <<>>,
     got |-> [s \in QueryStageSet |-> "-"],
     cached |-> None, errors |-> <<>>, contexts |-> <<>>, llm_ctx |-> <<>>,
     answer |-> <<>>, reply |-> NoAskReply]

InitQuery ==
    /\ qcfg \in QueryConfigs
    /\ qruns = [r \in QueryIds |-> IdleAsk]
    /\ cache = [k \in CacheKeys(qcfg.backend) |-> None]

AskCalled(run, stage, o) ==
    [run EXCEPT !.log = Append(@, stage), !.got[stage] = o.tag]

\* q = normalize_text(req.question); if not q: raise HTTPException(400, ...)
ask_begin(run, question) ==
    LET q == normalize_text(question)
    IN  IF q = <<>>
        THEN [run EXCEPT !.pc = "end",
                         !.reply = [NoAskReply EXCEPT !.status = 400,
                                                      !.detail = <<"Empty question", "">>]]
        ELSE [run EXCEPT !.pc = "redis_get", !.q = q]

\* errors.append({"stage": ..., "error": str(e)})
ask_record(run, stage, exc) ==
    [run EXCEPT !.errors = Append(@, [stage |-> ErrorLabel(stage), error |-> exc])]

\* ... ; raise HTTPException(status_code=503, detail=...)
ask_abort(run, stage, exc) ==
    [ask_record(run, stage, exc) EXCEPT
        !.pc = "end",
        !.reply = [NoAskReply EXCEPT !.status = 503, !.detail = Detail(stage, exc)]]

\* if cached: return {"found": True, ...}; User_Backend answers
\* json.loads(cached), or cached itself when that raises
ask_hit(cfg, run) ==
    IF Truthy(run.cached)
    THEN LET parsed == json_loads(run.cached.s)
             answer == IF cfg.backend = "User" /\ parsed.ok THEN parsed.val
                       ELSE run.cached.s
         IN  [run EXCEPT !.pc = "end",
                         !.reply = [NoAskReply EXCEPT !.status = 200, !.found = TRUE,
                                                      !.answer = answer,
                                                      !.errors = run.errors]]
    ELSE [run EXCEPT !.pc = "chunk"]

\* 1) the cache read
ask_lookup(cfg, run, o) ==
    LET run1 == IF o.res.attempts = 0 THEN run ELSE AskCalled(run, "redis_get", o)
        run2 == IF o.res.ok THEN [run1 EXCEPT !.cached = o.res.val]
                ELSE ask_record([run1 EXCEPT !.cached = None], "redis_get", o.res.exc)
    IN  ask_hit(cfg, run2)

ask_fatal_continue(run, stage, o) ==
    LET run1 == AskCalled(run, stage, o)
        exc  == StageExc(stage, o.res)
        run2 == IF exc /= "" THEN ask_record(run1, stage, exc) ELSE run1
    IN  [run2 EXCEPT !.pc = IF stage = "chunk" THEN "embed" ELSE "vector_search"]

\* 2) chunk and 3) embeddings: the call, the emptiness check, and the except
\* block that ends the request
ask_fatal(run, stage, o) ==
    LET run1 == AskCalled(run, stage, o)
        exc  == StageExc(stage, o.res)
    IN  IF exc /= "" THEN ask_abort(run1, stage, exc)
        ELSE [run1 EXCEPT !.pc = IF stage = "chunk" THEN "embed" ELSE "vector_search"]

\* The context a neighbor gives: dp.get("text") or ... or json.dumps(dp) of
\* a dict datapoint, the datapoint itself when it is a str, else a dump or
\* str() of the neighbor. Only a truthy non-str "text" yields a context that
\* is not a str. rank: the neighbor it came from.
context_of(neighbor) == [rank |-> neighbor.rank, str |-> neighbor.shape /= "nontext"]

\* 5) the contexts list, one context per neighbor in the order of the
\* response. Users_Backend calls search_resp.get on the body, which raises
\* AttributeError on a non-empty list; User_Backend takes a list body as the
\* neighbors.
build_contexts(backend, search_resp) ==
    IF backend = "Users" /\ search_resp.body = "list" /\ search_resp.neighbors /= <<>>
    THEN [contexts |-> <<>>, exc |-> "AttributeError"]
    ELSE [contexts |-> [i \in DOMAIN search_resp.neighbors |->
                           context_of(search_resp.neighbors[i])],
          exc |-> ""]

\* 5) with its except block: errors.append({"stage": "parse_vector", ...})
ask_parse(backend, run, search_resp) ==
    LET p == build_contexts(backend, search_resp)
        run1 == [run EXCEPT !.contexts = p.contexts]
    IN  IF p.exc /= "" THEN ask_record(run1, "parse_vector", p.exc) ELSE run1

ask_search_fatal(backend, run, o) ==
    LET run1 == AskCalled(run, "vector_search", o)
    IN  IF ~o.res.ok
        THEN [ask_record(run1, "vector_search", o.res.exc) EXCEPT
                 !.pc = "end", !.reply = [NoAskReply EXCEPT !.status = 503]]
        ELSE [ask_parse(backend, run1, o.res.val) EXCEPT !.pc = "llm"]

\* 4) vector search and 5) the contexts list: a failure is recorded and the
\* request goes on with no contexts
ask_search(backend, run, o) ==
    LET run1 == AskCalled(run, "vector_search", o)
    IN  IF ~o.res.ok
        THEN [ask_record(run1, "vector_search", o.res.exc) EXCEPT !.pc = "llm"]
        ELSE [ask_parse(backend, run1, o.res.val) EXCEPT !.pc = "llm"]

\* 6) call_llm(q, contexts if contexts else None); parse_llm_response
ask_llm(run, o) ==
    LET run1 == [AskCalled(run, "llm", o) EXCEPT !.llm_ctx = run.contexts]
    IN  IF ~o.res.ok THEN ask_abort(run1, "llm", o.res.exc)
        ELSE [run1 EXCEPT !.answer = parse_llm_response(o.res.val), !.pc = "redis_set"]

\* What redis_set is given: User_Backend stores json.dumps(answer),
\* Users_Backend the answer itself.
to_store(backend, answer) == IF backend = "User" THEN json_dumps(answer) ELSE answer

ask_store_halts(run, o) ==
    LET run1 == AskCalled(run, "redis_set", o)
        run2 == IF o.res.ok THEN run1 ELSE ask_record(run1, "redis_set", o.res.exc)
    IN  [run2 EXCEPT
            !.pc = "end",
            !.reply = IF o.res.ok
                      THEN [NoAskReply EXCEPT !.status = 200, !.answer = run2.answer,
                                              !.contexts_count = Len(run2.contexts),
                                              !.errors = run2.errors]
                      ELSE [NoAskReply EXCEPT !.status = 503]]

\* 7) the cache write, and the response of a miss
ask_store(run, o) ==
    LET run1 == AskCalled(run, "redis_set", o)
        run2 == IF o.res.ok THEN run1 ELSE ask_record(run1, "redis_set", o.res.exc)
    IN  [run2 EXCEPT
            !.pc = "end",
            !.reply = [NoAskReply EXCEPT !.status = 200, !.answer = run2.answer,
                                         !.contexts_count = Len(run2.contexts),
                                         !.errors = run2.errors]]

(* Actions *)

AdminIdle == UNCHANGED <<rcall, runs, job_store, sub, keyreq, tmp>>

Ask(r) ==
    /\ qruns[r].pc = "idle"
    /\ \E question \in RawQuestions :
          qruns' = [qruns EXCEPT ![r] = ask_begin(@, question)]
    /\ UNCHANGED <<qcfg, cache>>
    /\ AdminIdle

AskLookup(r) ==
    /\ qruns[r].pc = "redis_get"
    /\ \E o \in LookupCalls(qcfg, cache[cache_key(qcfg.backend, qruns[r].q)]) :
          qruns' = [qruns EXCEPT ![r] = ask_lookup(qcfg, @, o)]
    /\ UNCHANGED <<qcfg, cache>>
    /\ AdminIdle

AskChunk(r) ==
    /\ qruns[r].pc = "chunk"
    /\ \E o \in QueryChunkCalls(qcfg) :
          qruns' = [qruns EXCEPT ![r] = ask_fatal(@, "chunk", o)]
    /\ UNCHANGED <<qcfg, cache>>
    /\ AdminIdle

AskEmbed(r) ==
    /\ qruns[r].pc = "embed"
    /\ \E o \in QueryEmbedCalls(qcfg) :
          qruns' = [qruns EXCEPT ![r] = ask_fatal(@, "embed", o)]
    /\ UNCHANGED <<qcfg, cache>>
    /\ AdminIdle

AskSearch(r) ==
    /\ qruns[r].pc = "vector_search"
    /\ \E o \in QuerySearchCalls(qcfg) :
          qruns' = [qruns EXCEPT ![r] = ask_search(qcfg.backend, @, o)]
    /\ UNCHANGED <<qcfg, cache>>
    /\ AdminIdle

\* The vector search of a request, the index answering anything.
AskSearchAny(r) ==
    /\ qruns[r].pc = "vector_search"
    /\ \E o \in QuerySearchCallsAny(qcfg) :
          qruns' = [qruns EXCEPT ![r] = ask_search(qcfg.backend, @, o)]
    /\ UNCHANGED <<qcfg, cache>>
    /\ AdminIdle

AskLlm(r) ==
    /\ qruns[r].pc = "llm"
    /\ \E o \in QueryLlmCalls(qcfg, qruns[r].contexts) :
          qruns' = [qruns EXCEPT ![r] = ask_llm(@, o)]
    /\ UNCHANGED <<qcfg, cache>>
    /\ AdminIdle

AskStore(r) ==
    /\ qruns[r].pc = "redis_set"
    /\ \E o \in RedisSetCalls(qcfg) :
          /\ qruns' = [qruns EXCEPT ![r] = ask_store(@, o)]
          /\ cache' = IF o.res.ok
                      THEN [cache EXCEPT ![cache_key(qcfg.backend, qruns[r].q)] =
                               Some(to_store(qcfg.backend, qruns[r].answer))]
                      ELSE cache
    /\ UNCHANGED qcfg
    /\ AdminIdle

\* An entry's time to live runs out.
CacheExpire(k) ==
    /\ REDIS_TTL > 0
    /\ cache[k].some
    /\ cache' = [cache EXCEPT ![k] = None]
    /\ UNCHANGED <<qcfg, qruns>>
    /\ AdminIdle

NextQuery ==
    \/ \E r \in QueryIds :
          \/ Ask(r)
          \/ AskLookup(r)
          \/ AskChunk(r)
          \/ AskEmbed(r)
          \/ AskSearch(r)
          \/ AskLlm(r)
          \/ AskStore(r)
    \/ \E k \in DOMAIN cache : CacheExpire(k)

InitQ == InitQuery /\ IdleAdmin /\ IdleRetry /\ IdleSub /\ IdleKeys

SpecQuery == InitQ /\ [][NextQuery]_vars

-----------------------------------------------------------------------------
(* The cache keys of two requests *)

\* longest question text, in characters
MaxLen == 3

\* The characters of a question: a space, "e", the combining acute accent,
\* and the precomposed "e_acute".
KeyChars == {" ", "e", "acute", "e_acute"}

Texts == UNION { [1..n -> KeyChars] : n \in 0..MaxLen }

\* Mutant of ask_keys: the cache is read with the key of the question as
\* received and written with the key of the normalized question.
ask_keys_raw_lookup(backend, question) ==
    LET q == normalize_text(question)
    IN  IF q = <<>> THEN [status |-> 400, get |-> <<>>, set |-> <<>>]
        ELSE [status |-> 200, get |-> cache_key(backend, question),
              set |-> cache_key(backend, q)]

\* ask, the keys it passes to redis_get and to redis_set for a question:
\* User_Backend cache_key = sha256_key(q) for both, Users_Backend q for both;
\* none when the normalized question is empty (400).
ask_keys(backend, question) ==
    LET q == normalize_text(question)
    IN  IF q = <<>> THEN [status |-> 400, get |-> <<>>, set |-> <<>>]
        ELSE [status |-> 200, get |-> cache_key(backend, q),
              set |-> cache_key(backend, q)]

InitKeys ==
    keyreq \in { [backend |-> bk, phase |-> 0, a |-> <<>>, b |-> <<>>,
                  keys_a |-> [status |-> 0, get |-> <<>>, set |-> <<>>],
                  keys_b |-> [status |-> 0, get |-> <<>>, set |-> <<>>]] :
                 bk \in QueryBackends }

KeysOnly == UNCHANGED <<rcall, runs, job_store, qcfg, qruns, cache, sub, tmp>>

\* A first request arrives with its question.
AskFirst ==
    /\ keyreq.phase = 0
    /\ \E question \in Texts :
          keyreq' = [keyreq EXCEPT !.phase = 1, !.a = question,
                                   !.keys_a = ask_keys(keyreq.backend, question)]
    /\ KeysOnly

\* A second request arrives with its question.
AskSecond ==
    /\ keyreq.phase = 1
    /\ \E question \in Texts :
          keyreq' = [keyreq EXCEPT !.phase = 2, !.b = question,
                                   !.keys_b = ask_keys(keyreq.backend, question)]
    /\ KeysOnly

NextKeys == AskFirst \/ AskSecond

InitK == InitKeys /\ IdleAdmin /\ IdleRetry /\ IdleQuery /\ IdleSub

SpecKeys == InitK /\ [][NextKeys]_vars

\* One ingestion run and one query side by side, in a deployment whose chunk
\* and embedding endpoints and credentials are configured.
InitB ==
    /\ InitAdmin /\ InitQuery
    /\ qcfg.chunk_endpoint /\ qcfg.embedding_endpoint /\ qcfg.authed_session
    /\ IdleRetry /\ IdleSub /\ IdleKeys

NextBoth ==
    \/ \E r \in {1} :
          \/ SubmitText(r)
          \/ JobStart(r)
          \/ JobStage(r)
          \/ PushReceive(r)
          \/ PushStage(r)
          \/ PullReceive(r)
          \/ PullStage(r)
    \/ \E r \in {1} :
          \/ Ask(r)
          \/ AskLookup(r)
          \/ AskChunk(r)
          \/ AskEmbed(r)
          \/ AskSearch(r)
          \/ AskLlm(r)
          \/ AskStore(r)

SpecBoth == InitB /\ [][NextBoth]_vars

\* Two ingestion runs whose chunk, embed and store calls meet the same
\* collaborator outcomes: each run enters by its own path (a submitted job
\* starts, a push request or a pulled message decodes and downloads), and from
\* the chunk stage on a step gives every run at that stage the same outcome.
PipelineStage(run, store, stage, o) ==
    CASE run.path = "job"  -> process_file_job(run, store, stage, o)
      [] run.path = "push" -> [run |-> pubsub_endpoint(run, stage, o), store |-> store]
      [] run.path = "pull" -> [run |-> pull_callback(run, stage, o), store |-> store]

PushDownload(r) == runs[r].pc = "download" /\ PushStage(r)

PullDownload(r) == runs[r].pc = "download" /\ PullStage(r)

SameOutcome(stage) ==
    /\ \A r \in RunIds : runs[r].pc \in {stage, "end"}
    /\ \E r \in RunIds : runs[r].pc = stage
    /\ \E o \in AdminCalls(stage) :
          LET at == { r \in RunIds : runs[r].pc = stage }
              nxt == [r \in at |->
                        PipelineStage(Opened(runs[r], stage, tmp), job_store, stage, o)]
          IN  /\ runs' = [r \in RunIds |-> IF r \in at THEN nxt[r].run ELSE runs[r]]
              /\ job_store' =
                    [j \in JobIds |->
                        IF \E r \in at : runs[r].path = "job" /\ runs[r].job_id = j
                        THEN LET r == CHOOSE r \in at :
                                        runs[r].path = "job" /\ runs[r].job_id = j
                             IN  nxt[r].store[j]
                        ELSE job_store[j]]
    /\ UNCHANGED tmp
    /\ QueryIdle

NextPaths ==
    \/ \E r \in RunIds :
          \/ SubmitText(r)
          \/ JobStart(r)
          \/ PushReceive(r)
          \/ PushDownload(r)
          \/ PullReceive(r)
          \/ PullDownload(r)
    \/ \E stage \in {"chunk", "embed", "store"} : SameOutcome(stage)

SpecPaths == Init /\ [][NextPaths]_vars

\* One query at a time in a deployment with every endpoint and credential
\* configured, the vector index answering anything.
InitC ==
    /\ InitQuery
    /\ qcfg.chunk_endpoint /\ qcfg.embedding_endpoint /\ qcfg.vector_endpoint
    /\ qcfg.authed_session
    /\ IdleAdmin /\ IdleRetry /\ IdleSub /\ IdleKeys

NextContexts ==
    \/ \E r \in {1} :
          \/ Ask(r)
          \/ AskLookup(r)
          \/ AskChunk(r)
          \/ AskEmbed(r)
          \/ AskSearchAny(r)
          \/ AskLlm(r)
          \/ AskStore(r)

SpecContexts == InitC /\ [][NextContexts]_vars

\* Pushed and pulled notifications that name any of the objects.
InitF ==
    /\ runs = [r \in RunIds |-> IdleRun]
    /\ job_store = [j \in JobIds |-> NoJob]
    /\ tmp = NoFiles(Objects)
    /\ IdleRetry /\ IdleQuery /\ IdleSub /\ IdleKeys

NextFiles ==
    \E r \in RunIds :
        \/ PushReceive(r)
        \/ PushStage(r)
        \/ PullReceive(r)
        \/ PullStage(r)

SpecFiles == InitF /\ [][NextFiles]_vars

InitS == InitSub /\ IdleAdmin /\ IdleRetry /\ IdleQuery /\ IdleKeys

SpecSub == InitS /\ [][NextSub]_vars

\* The thread that called stop_pull_subscriber goes on executing it, and time
\* passes while it waits in the join.
FairSpecSub ==
    /\ InitS /\ [][NextSub]_vars
    /\ WF_vars(StopClose) /\ WF_vars(JoinTick) /\ WF_vars(StopJoinReturns)

-----------------------------------------------------------------------------
(* Properties of the job store and of the ingestion pipeline *)

Last(seq) == seq[Len(seq)]

Terminal == {"done", "failed"}

\* One step of a job's status along absent -> accepted -> running -> done | failed
StatusStep(a, b) ==
    \/ a = b
    \/ a = "absent" /\ b = "accepted"
    \/ a = "accepted" /\ b = "running"
    \/ a = "running" /\ b \in Terminal

\* C1: for every job id the recorded status only moves along
\* accepted -> running -> (done | failed); a terminal record is never
\* written again and running never goes back to accepted.
C1_StatusMonotonic ==
    [][\A j \in JobIds :
          /\ StatusStep(job_store[j].status, job_store'[j].status)
          /\ job_store[j].status \in Terminal => job_store'[j] = job_store[j]]_vars

\* C1 witness: one job has ended done and another failed.
C1_Witness ==
    \E j1, j2 \in JobIds :
        job_store[j1].status = "done" /\ job_store[j2].status = "failed"

\* The runs of background jobs that have not made their final write yet.
JobInFlight(r) ==
    runs[r].path = "job" /\ runs[r].pc \in {"queued", "chunk", "embed", "store"}

\* C2: every job accepted by submit_text eventually reaches a terminal status
\* (done or failed), given that every collaborator call returns or raises;
\* a status query made before the run's final write answers accepted or
\* running, and one made after it answers the terminal status.
C2_JobTerminates ==
    /\ \A j \in JobIds :
          (job_store[j].status = "accepted") ~> (job_store[j].status \in Terminal)
    /\ [](\A r \in RunIds :
            /\ JobInFlight(r) =>
                 job_status(job_store, runs[r].job_id).job_status
                    \in {"accepted", "running"}
            /\ (runs[r].path = "job" /\ runs[r].pc = "end" /\ runs[r].job_id \in JobIds) =>
                 job_status(job_store, runs[r].job_id).job_status \in Terminal)

\* C2 witness: one job has reached done while another is still running.
C2_Witness ==
    \E r1, r2 \in RunIds :
        /\ runs[r1].path = "job" /\ runs[r1].pc = "end"
        /\ job_status(job_store, runs[r1].job_id).job_status = "done"
        /\ JobInFlight(r2) /\ runs[r2].pc = "store"
        /\ job_status(job_store, runs[r2].job_id).job_status = "running"

FailsTwiceThenSucceeds(rs) == ~rs[1].ok /\ ~rs[2].ok /\ rs[3].ok
AlwaysFails(rs) == \A i \in 1..MAX_RETRIES : ~rs[i].ok

\* C3: with 3 maximum attempts, in each backend, an operation that fails twice
\* and then succeeds is invoked exactly 3 times and the wrapper returns that
\* result; an operation that always fails is invoked exactly 3 times and the
\* wrapper raises the operation's failure.
C3_RetryContract ==
    rcall.phase = "returned" =>
        /\ FailsTwiceThenSucceeds(rcall.results) =>
              /\ rcall.ret.ok
              /\ rcall.ret.val = rcall.results[3].val
              /\ rcall.ret.attempts = 3
        /\ AlwaysFails(rcall.results) =>
              /\ ~rcall.ret.ok
              /\ rcall.ret.exc = rcall.results[MAX_RETRIES].exc
              /\ rcall.ret.attempts = 3

StageOrder == <<"download", "chunk", "embed", "store">>
StageIndex(s) == CHOOSE i \in DOMAIN StageOrder : StageOrder[i] = s

\* The first stage of a run's entry path: a background job starts from the
\* file submit_text wrote.
FirstStage(path) == IF path = "job" THEN "chunk" ELSE "download"

C5_EmptyChunksFailAtChunk ==
    \A r \in RunIds :
        runs[r].got["chunk"] = "empty" =>
            /\ \A i \in DOMAIN runs[r].log : runs[r].log[i] \notin {"embed", "store"}
            /\ runs[r].pc = "end" =>
                  /\ Last(runs[r].log) = "chunk"
                  /\ runs[r].acks = 0
                  /\ runs[r].reply.status /= 200
                  /\ runs[r].path = "job" => job_store[runs[r].job_id].status = "failed"

\* An ingestion run that went into its pipeline and ended in failure.
EndedFailed(r) ==
    /\ runs[r].pc = "end" /\ runs[r].log /= <<>>
    /\ CASE runs[r].path = "job"  -> job_store[runs[r].job_id].status = "failed"
         [] runs[r].path = "push" -> runs[r].reply.status >= 500
         [] runs[r].path = "pull" -> runs[r].nacks > 0
         [] OTHER -> FALSE

\* The StageErrors a run has recorded: in its job's details, or in the
\* handler's errors list.
RecordedErrors(r) ==
    IF runs[r].path = "job" THEN job_store[runs[r].job_id].details.errors
    ELSE runs[r].errors

-----------------------------------------------------------------------------
(* Properties of the query pipeline *)

InLog(run, stage) == \E i \in DOMAIN run.log : run.log[i] = stage

\* The entries of an errors list that carry one stage label.
Count(errors, label) ==
    Cardinality({ i \in DOMAIN errors : errors[i].stage = label })

\* C7: when the cache lookup of a query returns a stored value, the query
\* returns found=true with that value (the stored text, or the answer it
\* encodes) and invokes none of chunk, embed, vector search, generate or
\* cache write.
C7_CacheHitReturns ==
    \A r \in QueryIds :
        LET run == qruns[r]
        IN  (run.got["redis_get"] = "ok" /\ run.cached.some) =>
                /\ run.log = <<"redis_get">>
                /\ run.pc = "end"
                /\ run.reply.status = 200
                /\ run.reply.found
                /\ run.reply.answer \in {run.cached.s, json_loads(run.cached.s).val}

\* C8: when vector search fails in a query whose chunk and embed stages
\* succeeded, the contexts stay empty, generate is still invoked, with no
\* context, and if it succeeds the 200 response has found=false and exactly
\* one errors entry labelled vector_search.
C8_SearchFailureGoesOn ==
    \A r \in QueryIds :
        LET run == qruns[r]
        IN  run.got["vector_search"] = "raised" =>
                /\ run.got["chunk"] \in {"ok", "errreply"} /\ run.got["embed"] = "ok"
                /\ run.contexts = <<>>
                /\ run.pc = "llm" \/ InLog(run, "llm")
                /\ InLog(run, "llm") => run.llm_ctx = <<>>
                /\ run.got["llm"] = "ok" =>
                      /\ run.pc \in {"redis_set", "end"}
                      /\ run.pc = "end" =>
                            /\ run.reply.status = 200
                            /\ ~run.reply.found
                            /\ run.reply.answer = run.answer
                            /\ run.reply.contexts_count = 0
                            /\ Count(run.reply.errors, "vector_search") = 1

\* C8 witness: a query answered 200 after its vector search failed.
C8_Witness ==
    \E r \in QueryIds :
        /\ qruns[r].got["vector_search"] = "raised"
        /\ qruns[r].got["llm"] = "ok"
        /\ qruns[r].pc = "end" /\ qruns[r].reply.status = 200
        /\ qruns[r].reply.answer = <<"answer">>

\* The lookup of a request failed: the call raised, or there is no cache
\* client to look up with.
LookupFailed(run) ==
    \/ run.got["redis_get"] = "raised"
    \/ ~qcfg.redis_client /\ run.pc \notin {"idle", "redis_get"} /\ run.q /= <<>>

WriteFailed(run) == run.got["redis_set"] = "raised"

\* C9: a failure of the cache lookup or of the cache write, the cache client
\* being unavailable included, never halts a query: the run continues to the
\* next stage or returns the answer, and each such failure is one entry of
\* the returned errors list.
C9_CacheFailuresRecorded ==
    \A r \in QueryIds :
        LET run == qruns[r]
        IN  /\ LookupFailed(run) => run.pc = "chunk" \/ InLog(run, "chunk")
            /\ WriteFailed(run) =>
                  /\ run.pc = "end" /\ run.reply.status = 200
                  /\ run.reply.answer = run.answer
            /\ (run.pc = "end" /\ run.reply.status = 200) =>
                  /\ LookupFailed(run) => Count(run.reply.errors, "redis_get") = 1
                  /\ WriteFailed(run) => Count(run.reply.errors, "redis_set") = 1

\* C9 amended: a failure of a cache lookup or cache write that the handler
\* attempts never halts a query, and each is one entry of the errors list of
\* the 200 response; User_Backend without a cache client does not attempt the
\* lookup and records nothing for it, and still attempts the write.
C9_AttemptedCacheFailuresRecorded ==
    \A r \in QueryIds :
        LET run == qruns[r]
            skipped == qcfg.backend = "User" /\ ~qcfg.redis_client
        IN  /\ run.got["redis_get"] = "raised" => run.pc = "chunk" \/ InLog(run, "chunk")
            /\ WriteFailed(run) =>
                  /\ run.pc = "end" /\ run.reply.status = 200
                  /\ run.reply.answer = run.answer
            /\ skipped => ~InLog(run, "redis_get")
            /\ (~skipped /\ ~qcfg.redis_client /\ InLog(run, "redis_get")) =>
                  run.got["redis_get"] = "raised"
            /\ (~qcfg.redis_client /\ InLog(run, "redis_set")) => WriteFailed(run)
            /\ (run.pc = "end" /\ run.reply.status = 200) =>
                  /\ Count(run.reply.errors, "redis_get") =
                        IF run.got["redis_get"] = "raised" THEN 1 ELSE 0
                  /\ Count(run.reply.errors, "redis_set") =
                        IF WriteFailed(run) THEN 1 ELSE 0

\* C9 witness: a query answered 200 whose lookup and write both failed, with
\* the two entries in its errors list.
C9_Witness ==
    \E r \in QueryIds :
        /\ qruns[r].got["redis_get"] = "raised" /\ WriteFailed(qruns[r])
        /\ qruns[r].pc = "end" /\ qruns[r].reply.status = 200
        /\ Len(qruns[r].reply.errors) = 2

FatalStages == {"chunk", "embed", "llm"}

\* The call of a stage raised, or returned an empty list.
StageFailed(run, stage) == run.got[stage] \in {"raised", "empty"}

\* C10: in a query, a failure of chunk, of embed (an empty result from either
\* included) or of generate ends the query with status 503; that stage is the
\* last one invoked, the cache write is never invoked, and no step of such a
\* query changes the cache.
C10_FatalStagesAbort ==
    /\ [](\A r \in QueryIds : \A s \in FatalStages :
            StageFailed(qruns[r], s) =>
                /\ qruns[r].pc = "end"
                /\ qruns[r].reply.status = 503
                /\ Last(qruns[r].log) = s
                /\ ~InLog(qruns[r], "redis_set"))
    /\ [][\A r \in QueryIds :
            ((\E s \in FatalStages : StageFailed(qruns'[r], s)) /\ qruns'[r] /= qruns[r])
                => cache' = cache]_vars

\* C10 witness: one query ended 503 on an empty embedding list, another on a
\* failed generate call, and the cache holds nothing.
C10_Witness ==
    \E r1, r2 \in QueryIds :
        /\ qruns[r1].got["embed"] = "empty" /\ qruns[r1].reply.status = 503
        /\ qruns[r2].got["llm"] = "raised" /\ qruns[r2].reply.status = 503
        /\ \A k \in DOMAIN cache : ~cache[k].some

-----------------------------------------------------------------------------
(* Properties of the pull subscriber *)

LiveThreads(s) == { g \in Gens : is_alive(s, g) }
OpenClients(s) == { g \in Gens : s.client[g] = "open" }

\* The subscriber's objects and the three globals that refer to them.
Handles(s) ==
    <<s.client, s.thread, s.future,
      s.subscriber_client, s.subscriber_thread, s.streaming_future>>

C12_StartAfterStopLaunches ==
    [][(StartPullSubscriber /\ sub.last \in {"stop", "stop_expired"}
            /\ sub'.last /= "start_failed") =>
          /\ sub'.subscriber_thread /= 0
          /\ sub'.thread[sub'.subscriber_thread] = "spawned"
          /\ sub'.subscriber_client = sub'.subscriber_thread
          /\ sub'.client[sub'.subscriber_client] = "open"]_vars

\* The worker is stopped: no lifecycle call was made yet, or the last one was
\* a stop.
Stopped(s) == s.last \in {"none", "stop", "stop_expired"}

\* C15: stop_pull_subscriber called while the worker is stopped (never
\* started, or already stopped) leaves the client, the future and the thread,
\* and the globals that hold them, unchanged.
C15_StopWhileStoppedIsNoop ==
    [][((StopPullSubscriber \/ StopClose \/ StopJoinReturns) /\ Stopped(sub))
          => Handles(sub') = Handles(sub)]_vars

\* C16: the process holds at most one open subscriber client and at most one
\* live worker thread.
C16_AtMostOneClientAndThread ==
    /\ Cardinality(OpenClients(sub)) <= 1
    /\ Cardinality(LiveThreads(sub)) <= 1

-----------------------------------------------------------------------------
(* Properties of message handling, responses and the job store *)

\* C13: when a pulled message's payload cannot be decoded (or lacks bucket or
\* name), the callback negatively acknowledges the message once, never
\* acknowledges it, and invokes no stage for it.
C13_UndecodableIsNacked ==
    \A r \in RunIds :
        (runs[r].path = "pull" /\ runs[r].msg /= "valid") =>
            /\ runs[r].pc = "end"
            /\ runs[r].nacks = 1 /\ runs[r].acks = 0
            /\ runs[r].log = <<>>
            /\ \A s \in StageSet : runs[r].got[s] = "-"

\* C13 witness: a pulled message whose data does not decode was nacked while
\* another run's valid message is being processed.
C13_Witness ==
    \E r1, r2 \in RunIds :
        /\ runs[r1].path = "pull" /\ runs[r1].msg = "badenc" /\ runs[r1].nacks = 1
        /\ runs[r2].path = "pull" /\ runs[r2].msg = "valid" /\ runs[r2].pc = "chunk"

\* A stage succeeded: its collaborator answered with a usable result.
StageSucceeded(run, stage) == run.got[stage] = "ok"

\* A stage failed: its call raised, or the collaborator answered with an
\* empty list or an error reply.
StageFailedIn(run, stage) == run.got[stage] \in {"raised", "empty", "errreply"}

\* C14: a pulled message is acknowledged if and only if download, chunk,
\* embed and store all succeeded for it; if any stage failed it is negatively
\* acknowledged and never acknowledged.
C14_AckIffAllStagesSucceeded ==
    \A r \in RunIds :
        runs[r].path = "pull" =>
            /\ runs[r].acks >= 1 <=> \A s \in StageSet : StageSucceeded(runs[r], s)
            /\ (runs[r].pc = "end" /\ \E s \in StageSet : StageFailedIn(runs[r], s)) =>
                  runs[r].nacks = 1 /\ runs[r].acks = 0

\* C17: every outcome returned to a caller, failure as well as success,
\* carries the full list of errors accumulated during the run.
C17_OutcomeCarriesAllErrors ==
    \A r \in QueryIds :
        (qruns[r].pc = "end" /\ qruns[r].reply.status /= 0) =>
            qruns[r].reply.errors = qruns[r].errors

\* C18: push ingestion answers a malformed message with a client-error status
\* and the failure of any remote stage with status 503.
C18_PushStatusPerFailure ==
    \A r \in RunIds :
        (runs[r].path = "push" /\ runs[r].pc = "end") =>
            /\ runs[r].msg /= "valid" =>
                  runs[r].reply.status >= 400 /\ runs[r].reply.status < 500
            /\ (\E s \in StageSet : StageFailedIn(runs[r], s)) =>
                  runs[r].reply.status = 503

\* A job id submit_text has handed out.
Submitted(j) == \E r \in RunIds : runs[r].path = "job" /\ runs[r].job_id = j

\* C19: a status query for an id that was never submitted answers 404; for
\* the id of an accepted job it answers 200 with that id, and an id that
\* answers 200 does so in every later state.
C19_RecordsAreKept ==
    /\ [](\A j \in JobIds \cup {0} :
            IF j \in JobIds /\ Submitted(j)
            THEN /\ job_status(job_store, j).status = 200
                 /\ job_status(job_store, j).job_id = j
            ELSE job_status(job_store, j).status = 404)
    /\ [][\A j \in JobIds :
            job_status(job_store, j).status = 200 =>
                job_status(job_store', j).status = 200]_vars

\* C19 witness: one job is done and still answered, one id was never used.
C19_Witness ==
    \E j1, j2 \in JobIds :
        /\ job_status(job_store, j1).job_status = "done"
        /\ ~Submitted(j2) /\ job_status(job_store, j2).status = 404

\* C20: a job whose chunk, embed and store stages all succeeded ends done,
\* its details holding stored = the number of vectors given to
\* store_embeddings and the store collaborator's payload; one chunk and one
\* vector give stored = 1.
C20_DoneReportsStored ==
    \A r \in RunIds :
        LET run == runs[r]
            job == job_status(job_store, run.job_id)
        IN  (run.path = "job" /\ run.pc = "end"
                /\ \A s \in {"chunk", "embed", "store"} : StageSucceeded(run, s)) =>
                /\ job.job_status = "done"
                /\ {"stored", "store_resp", "acknowledged"} \subseteq job.details.keys
                /\ job.details.stored = Len(run.embeddings)
                /\ job.details.store_resp = run.store_resp
                /\ run.store_resp = <<"store_ack">>
                /\ (Len(run.chunks) = 1 /\ Len(run.embeddings) = 1) =>
                      job.details.stored = 1

\* C20 witness: a job with one chunk and one vector ended done, stored = 1.
C20_Witness ==
    \E r \in RunIds :
        /\ runs[r].path = "job" /\ runs[r].pc = "end"
        /\ runs[r].got["store"] = "ok"
        /\ Len(runs[r].chunks) = 1 /\ Len(runs[r].embeddings) = 1
        /\ job_status(job_store, runs[r].job_id).details.stored = 1

-----------------------------------------------------------------------------
(* Properties of the cache key *)

\* unicodedata.normalize("NFD", s): every precomposed character replaced by
\* its base character and combining mark
RECURSIVE NFD(_)
NFD(s) ==
    IF s = <<>> THEN s
    ELSE IF s[1] = "e_acute" THEN <<"e", "acute">> \o NFD(Tail(s))
    ELSE <<s[1]>> \o NFD(Tail(s))

\* The text between the first and the last character that is not a space.
Core(s) ==
    LET idx == { i \in DOMAIN s : s[i] /= " " }
    IN  IF idx = {} THEN <<>>
        ELSE SubSeq(s, CHOOSE i \in idx : \A j \in idx : i <= j,
                       CHOOSE i \in idx : \A j \in idx : i >= j)

\* Two questions differ at most in surrounding whitespace and in Unicode
\* normalization form (composed or decomposed).
SameQuestion(a, b) == NFD(Core(a)) = NFD(Core(b))

-----------------------------------------------------------------------------
(* Properties of stage failures *)

\* C22: when the chunk service answers with its error reply (unsupported
\* file type), the ingestion run ends failed at stage chunk, and embed and
\* store are never invoked for that input.
C22_UnsupportedTypeFailsAtChunk ==
    \A r \in RunIds :
        runs[r].got["chunk"] = "errreply" =>
            /\ \A i \in DOMAIN runs[r].log : runs[r].log[i] \notin {"embed", "store"}
            /\ runs[r].pc = "end"
            /\ Last(runs[r].log) = "chunk"
            /\ runs[r].acks = 0
            /\ runs[r].reply.status /= 200
            /\ runs[r].path = "job" => job_store[runs[r].job_id].status = "failed"

-----------------------------------------------------------------------------
(* Properties of stopping the pull subscriber *)

\* stop_pull_subscriber has returned and no lifecycle call was made since.
StopReturned(s) == s.pc = "idle" /\ s.last \in {"stop", "stop_expired"}

\* The receive operations that are streaming.
ActiveReceives(s) == { g \in Gens : s.future[g] = "streaming" }

C24_StopAlwaysReturns ==
    /\ \A c \in StopCallers : (sub.caller = c) ~> (sub.pc = "idle")
    /\ [](sub.waited <= JOIN_TIMEOUT)
    /\ [](sub.pc = "joining" => sub.caller /= "worker")

\* C24 witness: a stop has returned after the full JOIN_TIMEOUT with the
\* worker thread still alive.
C24_Witness ==
    /\ StopReturned(sub) /\ sub.last = "stop_expired"
    /\ sub.waited = JOIN_TIMEOUT
    /\ is_alive(sub, sub.subscriber_thread)

-----------------------------------------------------------------------------
(* Properties of the pull worker's message handling and of retries *)

\* The invocations of pull_callback that are in progress.
CallbacksInProgress ==
    { r \in RunIds : runs[r].path = "pull" /\ runs[r].pc \in StageSet }

\* C25: at most one invocation of pull_callback is in progress at any
\* moment; the pipeline runs of two pulled messages never overlap.
C25_OneCallbackAtATime == Cardinality(CallbacksInProgress) <= 1

\* C26: every ingestion stage, download included, is retry-wrapped: a run is
\* declared failed at a stage whose call raised only after the collaborator
\* was invoked MAX_RETRIES times.
C26_EveryStageRetried ==
    \A r \in RunIds :
        (runs[r].log /= <<>> /\ runs[r].got[Last(runs[r].log)] = "raised") =>
            runs[r].calls = MAX_RETRIES

\* The exceptions a stage function raises when its endpoint or its
\* credentials are not configured.
ConfigErrors ==
    { "CHUNK_ENDPOINT not configured", "EMBEDDING_ENDPOINT not configured",
      "Google auth not available for embeddings call",
      "VECTOR_DB_ENDPOINT not configured",
      "Google auth not available for vector DB call" }

\* C27: a stage call that fails because a required endpoint or credential is
\* not configured is attempted exactly once, with no backoff wait and no
\* retry.
C27_ConfigFailsFast ==
    \A r \in RunIds :
        (runs[r].log /= <<>> /\ RecordedErrors(r) /= <<>>
            /\ Last(RecordedErrors(r)).error \in ConfigErrors) =>
            runs[r].calls = 1 /\ runs[r].waits = <<>>

\* C28: after the k-th failed attempt of a wrapped call that is attempted
\* again, the wrapper has waited BACKOFF_BASE * 2^(k-1): BACKOFF_BASE after
\* the first, and twice the previous wait after each later one; the number
\* of attempts never exceeds MAX_RETRIES.
C28_BackoffDoubles ==
    rcall.phase = "returned" =>
        LET ret == rcall.ret
        IN  /\ ret.attempts <= MAX_RETRIES
            /\ Len(ret.waits) >= ret.attempts - 1
            /\ \A k \in 1..(ret.attempts - 1) :
                  /\ ~rcall.results[k].ok
                  /\ ret.waits[k] = IF k = 1 THEN BACKOFF_BASE
                                    ELSE 2 * ret.waits[k - 1]

\* C28 witness: a call of User_Backend that failed twice and then returned,
\* after waits of 200 ms and 400 ms.
C28_Witness ==
    /\ rcall.phase = "returned" /\ rcall.backend = "User"
    /\ rcall.ret.ok /\ rcall.ret.attempts = 3
    /\ rcall.ret.waits = <<200, 400>>

\* C29: when the embed collaborator returns an empty embedding list, the run
\* fails at the embed stage: an ingestion run ends failed without invoking
\* store, and a query ends 503 without invoking vector search or generate.
C29_EmptyEmbeddingsFailAtEmbed ==
    /\ \A r \in RunIds :
          runs[r].got["embed"] = "empty" =>
              /\ runs[r].pc = "end"
              /\ Last(runs[r].log) = "embed"
              /\ \A i \in DOMAIN runs[r].log : runs[r].log[i] /= "store"
              /\ EndedFailed(r)
              /\ runs[r].acks = 0
              /\ runs[r].path = "push" => runs[r].reply.status = 503
    /\ \A r \in QueryIds :
          qruns[r].got["embed"] = "empty" =>
              /\ qruns[r].pc = "end"
              /\ Last(qruns[r].log) = "embed"
              /\ ~InLog(qruns[r], "vector_search") /\ ~InLog(qruns[r], "llm")
              /\ qruns[r].reply.status = 503

\* C29 witness: a pulled message and a query of User_Backend have both ended
\* on an empty embedding list.
C29_Witness ==
    /\ \E r \in RunIds :
          /\ runs[r].path = "pull" /\ runs[r].got["embed"] = "empty"
          /\ runs[r].nacks = 1
    /\ \E r \in QueryIds :
          /\ qcfg.backend = "User" /\ qruns[r].got["embed"] = "empty"
          /\ qruns[r].reply.status = 503

\* C30: in every state of the job store, a job whose details hold a
\* non-empty errors list has status failed, and a job with status done has an
\* empty errors list.
C30_ErrorsIffFailed ==
    \A j \in JobIds :
        /\ job_store[j].details.errors /= <<>> => job_store[j].status = "failed"
        /\ job_store[j].status = "done" =>
              /\ "errors" \in job_store[j].details.keys
              /\ job_store[j].details.errors = <<>>

\* C30 witness: the store holds a done job with an empty errors list and a
\* failed job whose errors list has one entry.
C30_Witness ==
    \E j1, j2 \in JobIds :
        /\ job_store[j1].status = "done" /\ job_store[j1].details.errors = <<>>
        /\ job_store[j2].status = "failed" /\ Len(job_store[j2].details.errors) = 1

-----------------------------------------------------------------------------
(* Properties of the retry wrapper's waits *)

\* C38: a wrapped call waits only between two attempts: a call that made n
\* attempts waited exactly n - 1 times, so nothing is waited for after the
\* last attempt.
C38_WaitsOnlyBetweenAttempts ==
    rcall.phase = "returned" => Len(rcall.ret.waits) = rcall.ret.attempts - 1

(* Properties of a query that follows a cache write *)

\* The answers a query can be given by Generate.
Answers == { parse_llm_response(<<t>>) : t \in LlmTexts }

\* C37: once a query that missed the cache has written its answer, a later
\* query for the same normalized question whose lookup succeeds while the
\* entry is still there returns found=true with that same answer, whatever
\* the answer's text (the empty one included), and does not invoke Generate.
C37_WrittenAnswerIsFound ==
    [][\A r \in QueryIds :
          LET k == cache_key(qcfg.backend, qruns[r].q)
          IN  (AskLookup(r) /\ cache[k].some /\ qruns'[r].got["redis_get"] = "ok") =>
                 \E a \in Answers :
                    /\ cache[k] = Some(to_store(qcfg.backend, a))
                    /\ qruns'[r].pc = "end"
                    /\ qruns'[r].reply.found
                    /\ qruns'[r].reply.answer = a
                    /\ ~InLog(qruns'[r], "llm")]_vars

(* Properties of a start that fails *)

\* C34: when start_pull_subscriber fails after it has created the
\* subscription client, it leaves the worker stopped: the process holds no
\* subscription client (none referenced, none open) and no live worker
\* thread.
C34_FailedStartLeavesNothing ==
    [][(StartPullSubscriber /\ sub'.last = "start_failed"
            /\ NewGen(sub') > NewGen(sub)) =>
          /\ sub'.subscriber_client = 0
          /\ \A g \in Gens : sub'.client[g] /= "open"
          /\ \A g \in Gens : ~is_alive(sub', g)]_vars

(* Properties of the acknowledgement of a pulled message *)

\* C36: a message given to pull_callback is answered exactly once: while
\* the handler is at work neither ack nor nack has been called, and once it
\* has returned, on whichever path (payload not decodable, not an object,
\* without bucket or name; a stage failed; all stages succeeded), exactly
\* one call of ack or nack has been made.
C36_ExactlyOneAckOrNack ==
    \A r \in RunIds :
        runs[r].path = "pull" =>
            runs[r].acks + runs[r].nacks = IF runs[r].pc = "end" THEN 1 ELSE 0

\* C36 witness: one handler has returned after acking, another after nacking
\* a message whose store stage failed.
C36_Witness ==
    \E r1, r2 \in RunIds :
        /\ runs[r1].path = "pull" /\ runs[r1].pc = "end" /\ runs[r1].acks = 1
        /\ runs[r2].path = "pull" /\ runs[r2].pc = "end" /\ runs[r2].nacks = 1
        /\ runs[r2].got["store"] = "raised"

(* Properties of the three entry paths compared *)

\* The run went through the pipeline: it has returned after calling chunk.
WentThrough(r) == runs[r].pc = "end" /\ InLog(runs[r], "chunk")

\* The run's path reports success: the job's record is done, the pulled
\* message was acked, the push response is 200 with acknowledged=true.
ReportsSuccess(r) ==
    CASE runs[r].path = "job"  -> job_store[runs[r].job_id].status = "done"
      [] runs[r].path = "pull" -> runs[r].acks = 1
      [] runs[r].path = "push" ->
            runs[r].reply.status = 200 /\ runs[r].reply.acknowledged

\* C35: two runs that entered by any two of the paths (job, push, pull; the
\* download succeeded) and whose chunk, embed and store calls met the same
\* collaborator outcomes agree: one reports success exactly when the other
\* does, and they stopped after the same stage.
C35_PathsAgree ==
    \A r1, r2 \in RunIds :
        (WentThrough(r1) /\ WentThrough(r2)) =>
            /\ ReportsSuccess(r1) <=> ReportsSuccess(r2)
            /\ Last(runs[r1].log) = Last(runs[r2].log)

\* C35 witness: a job and a pulled message went through the same outcomes
\* and both report success, or a push request and a job both report failure
\* after the embed stage returned nothing.
C35_Witness ==
    \E r1, r2 \in RunIds :
        /\ WentThrough(r1) /\ WentThrough(r2)
        /\ runs[r1].path = "job"
        /\ \/ runs[r2].path = "pull" /\ ReportsSuccess(r1) /\ ReportsSuccess(r2)
           \/ /\ runs[r2].path = "push" /\ runs[r2].got["embed"] = "empty"
              /\ ~ReportsSuccess(r1) /\ ~ReportsSuccess(r2)

(* Properties of the contexts of a query *)

\* The contexts follow the ranking of the neighbors they came from.
Ranked(contexts) ==
    \A i, j \in DOMAIN contexts : i < j => contexts[i].rank < contexts[j].rank

\* C31: whatever number of neighbors the vector index returns, the contexts
\* call_llm is given and the contexts_count of the response never number
\* more than VECTOR_NEIGHBOR_COUNT, and the contexts are in ranked order.
C31_ContextsWithinNeighborCount ==
    \A r \in QueryIds :
        /\ Len(qruns[r].llm_ctx) <= VECTOR_NEIGHBOR_COUNT
        /\ qruns[r].reply.contexts_count <= VECTOR_NEIGHBOR_COUNT
        /\ Ranked(qruns[r].llm_ctx)

\* C32: whatever the shape of the vector index's answer, a query whose
\* vector search was called goes on to Generate: once the handler has
\* returned, call_llm was called and the model was asked, and if call_llm
\* returned the response is the 200 of a miss.
C32_ExtractionNeverFailsQuery ==
    \A r \in QueryIds :
        LET run == qruns[r]
        IN  (run.pc = "end" /\ InLog(run, "vector_search")) =>
                /\ InLog(run, "llm")
                /\ run.got["llm"] /= "typeerror"
                /\ run.got["llm"] = "ok" =>
                      run.reply.status = 200 /\ ~run.reply.found

(* Properties of the local files of concurrent runs *)

\* C33: the content a push or pull run sends to the chunk service is the
\* content of the object that run downloaded, whatever other runs are in
\* progress and whatever objects they name.
C33_RunSendsWhatItDownloaded ==
    \A r \in RunIds :
        (runs[r].path \in {"push", "pull"} /\ InLog(runs[r], "chunk")) =>
            runs[r].sent = runs[r].object

=============================================================================
